---- MODULE Spec2Model ----
(***************************************************************************)
(* State-machine model of the Seer-AI concurrency core:                    *)
(*   - src/src/utils/concurrentRunner.ts  (runConcurrentTasks)             *)
(*   - src/src/utils/rateLimiter.ts       (RateLimiter)                    *)
(*                                                                         *)
(* JavaScript runs one job at a time: the code between two suspension      *)
(* points (await) is one atomic action here.  Timers fire no earlier than  *)
(* requested and arbitrarily later.                                        *)
(***************************************************************************)
EXTENDS Integers, Sequences, FiniteSets, TLC

VARIABLES
    \* ---- runConcurrentTasks ----
    cfg,          \* the destructured config: tasks.length, concurrency, maxRetries,
                  \* and what the executor does for each index
    mainPc,       \* position of runConcurrentTasks itself
    launched,     \* number of worker() calls made by the launch loop
    stats,        \* TaskStats
    queueIndex,   \* shared queue cursor
    results,      \* results array (completion order until the final sort)
    returned,     \* value the run resolved with
    workersDone,  \* number of worker() promises that have resolved
    t,            \* per task index: the locals of its processTask call
    progress,     \* the snapshots ({ ...stats }) handed to onProgress by the
                  \* latest step that called updateProgress, in order
    \* ---- RateLimiter ----
    now,          \* Date.now()
    rateLimit,    \* modelId -> the rateLimit of its AIModelConfig
    states,       \* Map modelId -> RateLimitState (domain grows lazily)
    waitQueue,    \* Map modelId -> queue of parked resolvers (caller ids)
    callers       \* per caller of acquire: its position, cost, timer, admission

runnerVars == <<cfg, mainPc, launched, stats, queueIndex, results, returned, workersDone, t,
               progress>>
limiterVars == <<now, rateLimit, states, waitQueue, callers>>
vars == <<cfg, mainPc, launched, stats, queueIndex, results, returned, workersDone, t,
          progress, now, rateLimit, states, waitQueue, callers>>

(***************************************************************************)
(* Bounds of the model                                                     *)
(***************************************************************************)
MaxTasks == 2
MaxConcurrency == 2
MaxRetriesBound == 2
NumCallers == 5         \* callers of acquire under the concurrency strategy
NumRpmCallers == 3      \* callers of acquire under the rpm strategy
NumTpmCallers == 2      \* callers of acquire under the tpm strategy
MaxLimit == 2           \* largest rateLimit.value
MaxCost == 2            \* largest estimatedTokens
TicksPerWindow == 2     \* the clock advances in steps of windowSize / TicksPerWindow
MaxTicks == 3           \* the clock stops after MaxTicks steps
MaxBackoffRetries == 7  \* largest maxRetries of the run that exercises the backoff
NumDefaultCallers == 6  \* callers of acquire for a resource without a rateLimit
NumMixedCallers == 2    \* callers of acquire for a resource whose strategy changes
MaxPolicyValue == 12    \* largest value of a configured rateLimit
NumStrayCallers == 3    \* callers of acquire next to releases that match no acquire
NumFrameCallers == 3    \* callers of acquire that share two resources

(***************************************************************************)
(* Program constants                                                       *)
(***************************************************************************)
TimeoutMs == 60000
RetryDelayMs == 2000
BackoffCapMs == 30000
WindowSize == 60000
DefaultConcurrency == 5

(***************************************************************************)
(* Strings are sequences of characters, so that String.includes and        *)
(* String.toLowerCase are computed and not assumed.                        *)
(***************************************************************************)
Min(a, b) == IF a < b THEN a ELSE b
Max(a, b) == IF a > b THEN a ELSE b

RECURSIVE Pow2(_)
Pow2(k) == IF k <= 0 THEN 1 ELSE 2 * Pow2(k - 1)

Digit(d) == <<"0", "1", "2", "3", "4", "5", "6", "7", "8", "9">>[d + 1]

\* Number -> decimal string, as a template literal does for a non-negative integer
RECURSIVE NumToString(_)
NumToString(n) == IF n < 10 THEN <<Digit(n)>>
                  ELSE NumToString(n \div 10) \o <<Digit(n % 10)>>

UpperCase == <<"A","B","C","D","E","F","G","H","I","J","K","L","M",
               "N","O","P","Q","R","S","T","U","V","W","X","Y","Z">>
LowerCase == <<"a","b","c","d","e","f","g","h","i","j","k","l","m",
               "n","o","p","q","r","s","t","u","v","w","x","y","z">>

LowerChar(c) == IF \E k \in 1..26 : UpperCase[k] = c
                THEN LowerCase[CHOOSE k \in 1..26 : UpperCase[k] = c]
                ELSE c

ToLowerCase(s) == [k \in 1..Len(s) |-> LowerChar(s[k])]

Includes(s, p) == \E k \in 0..(Len(s) - Len(p)) : SubSeq(s, k + 1, k + Len(p)) = p

\* `Task ${index} timed out after ${timeoutMs}ms`
TimeoutMessage(index) ==
    <<"T","a","s","k"," ">> \o NumToString(index)
    \o <<" ","t","i","m","e","d"," ","o","u","t"," ","a","f","t","e","r"," ">>
    \o NumToString(TimeoutMs) \o <<"m","s">>

\* Messages an execution function rejects with in this model
MsgInvalidInput == <<"i","n","v","a","l","i","d"," ","i","n","p","u","t">>
MsgEconnreset == <<"E","C","O","N","N","R","E","S","E","T">>
ExecMessages == {MsgInvalidInput, MsgEconnreset}

NoError == <<>>

\* Values an execution function rejects with that are not Error objects:
\* a thrown string, and undefined
RejectValues == {[type |-> "string", chars |-> MsgEconnreset],
                 [type |-> "string", chars |-> MsgInvalidInput],
                 [type |-> "undefined", chars |-> <<>>]}

MsgUndefined == <<"u","n","d","e","f","i","n","e","d">>

\* String(value)
StringOf(value) == IF value.type = "undefined" THEN MsgUndefined ELSE value.chars

\* The message property of a value that has none
NoMessage == <<"no message property">>

\* Faulty variant of ToLastError: lastError = error as Error
ToLastErrorUnwrapped(error) ==
    IF error.type = "Error" THEN error.chars ELSE NoMessage

\* lastError = error instanceof Error ? error : new Error(String(error)),
\* as the message of lastError
ToLastError(error) ==
    IF error.type = "Error" THEN error.chars ELSE StringOf(error)

\* What config.executor does for an index, attempt after attempt:
\*   any                  resolves, rejects or outlives the timer, by choice
\*   resolves             always resolves before the timer
\*   rejectsEconnreset    always rejects with Error("ECONNRESET") before the timer
\*   rejectsInvalidInput  always rejects with Error("invalid input") before the timer
\*   outlivesTimer        never settles within timeoutMs (it settles later or never)
\*   flaky                resolves or rejects with Error("ECONNRESET"), by choice,
\*                        before the timer
Executors == {"any", "resolves", "rejectsEconnreset", "rejectsInvalidInput",
              "outlivesTimer", "flaky"}

isRetryableError(message) ==
    LET m == ToLowerCase(message) IN
    \/ Includes(m, <<"t","i","m","e","o","u","t">>)
    \/ Includes(m, <<"n","e","t","w","o","r","k">>)
    \/ Includes(m, <<"f","e","t","c","h">>)
    \/ Includes(m, <<"e","c","o","n","n","r","e","s","e","t">>)
    \/ Includes(m, <<"e","n","o","t","f","o","u","n","d">>)
    \/ Includes(m, <<"s","o","c","k","e","t">>)
    \/ Includes(m, <<"a","b","o","r","t">>)
    \/ Includes(m, <<"4","2","9">>)
    \/ Includes(m, <<"5","0","3">>)
    \/ Includes(m, <<"5","0","2">>)

\* Faulty variant of isTimeout: the test looks for the word 'timeout'
isTimeoutAsOneWord(lastError) ==
    lastError # NoError /\ Includes(lastError, <<"t","i","m","e","o","u","t">>)

\* lastError?.message.includes('timed out')
isTimeout(lastError) ==
    lastError # NoError /\ Includes(lastError, <<"t","i","m","e","d"," ","o","u","t">>)

\* Every message an attempt can fail with in this model, classified once
AllMessages == ExecMessages \cup {MsgUndefined} \cup {TimeoutMessage(i) : i \in 0..MaxTasks}
RetryableTable == [m \in AllMessages |-> isRetryableError(m)]
TimeoutTable == [m \in AllMessages \cup {NoError} |-> isTimeout(m)]

(***************************************************************************)
(* runConcurrentTasks                                                      *)
(***************************************************************************)
Indices == 0..(cfg.n - 1)

\* Faulty variant of workerCount: a single worker
workerCountSingle == Min(1, cfg.n)

\* Faulty variant of workerCount: one worker per unit of concurrency
workerCountUnclamped == cfg.concurrency

\* const workerCount = Math.min(concurrency, tasks.length)
workerCount == Min(cfg.concurrency, cfg.n)

\* position: the place in results at which the outcome was pushed;
\* timer: the setTimeout of the current attempt's withTimeout is pending;
\* calls: how often each observer was invoked for the task
NoCalls == [onTaskStart |-> 0, onTaskComplete |-> 0, onTaskError |-> 0, onTaskSkip |-> 0]

InitTask == [pc |-> "pending", claims |-> 0, attempts |-> 0, lastError |-> NoError,
             invocations |-> 0, orphans |-> 0, status |-> "none",
             backoffDelay |-> 0, position |-> 0, timer |-> FALSE, calls |-> NoCalls]

InitStats == [total |-> cfg.n, completed |-> 0, succeeded |-> 0, failed |-> 0,
              skipped |-> 0, retrying |-> 0, inProgress |-> 0]

\* Faulty variant of Exhausted: a timeout outcome is returned without
\* stats.skipped++
ExhaustedUncounted(tk, st) ==
    IF TimeoutTable[tk.lastError]
    THEN [t |-> [tk EXCEPT !.pc = "returned", !.status = "skipped",
                           !.calls.onTaskSkip = @ + 1],
          stats |-> st]
    ELSE [t |-> [tk EXCEPT !.pc = "returned", !.status = "failed"],
          stats |-> [st EXCEPT !.failed = @ + 1]]

\* "All retries exhausted": the code after the while loop of processTask
Exhausted(tk, st) ==
    IF TimeoutTable[tk.lastError]
    THEN [t |-> [tk EXCEPT !.pc = "returned", !.status = "skipped",
                           !.calls.onTaskSkip = @ + 1],
          stats |-> [st EXCEPT !.skipped = @ + 1]]
    ELSE [t |-> [tk EXCEPT !.pc = "returned", !.status = "failed"],
          stats |-> [st EXCEPT !.failed = @ + 1]]

\* Faulty variant of LoopHead: onTaskStart is called on every pass
LoopHeadStartsEveryPass(tk, st) ==
    IF tk.attempts < cfg.maxRetries
    THEN [t |-> [tk EXCEPT !.attempts = @ + 1, !.invocations = @ + 1,
                           !.pc = "awaiting", !.timer = TRUE,
                           !.calls.onTaskStart = @ + 1],
          stats |-> st]
    ELSE Exhausted(tk, st)

\* Faulty variant of LoopHead: the loop test is attempts <= maxRetries
LoopHeadOffByOne(tk, st) ==
    IF tk.attempts <= cfg.maxRetries
    THEN [t |-> [tk EXCEPT !.attempts = @ + 1, !.invocations = @ + 1,
                           !.pc = "awaiting", !.timer = TRUE,
                           !.calls.onTaskStart = IF tk.attempts + 1 = 1 THEN @ + 1 ELSE @],
          stats |-> st]
    ELSE Exhausted(tk, st)

\* The head of the while loop of processTask up to the await of withTimeout:
\* the loop test, attempts++, onTaskStart on the first pass, the call of
\* executor(task, index) and the setTimeout of withTimeout
LoopHead(tk, st) ==
    IF tk.attempts < cfg.maxRetries
    THEN [t |-> [tk EXCEPT !.attempts = @ + 1, !.invocations = @ + 1,
                           !.pc = "awaiting", !.timer = TRUE,
                           !.calls.onTaskStart = IF tk.attempts + 1 = 1 THEN @ + 1 ELSE @],
          stats |-> st]
    ELSE Exhausted(tk, st)

\* Faulty variant of BackoffDelay: no cap
BackoffDelayUncapped(attempts) == RetryDelayMs * Pow2(attempts - 1)

\* Exponential backoff: retryDelayMs * 2^(attempts-1), capped at 30s
BackoffDelay(attempts) == Min(RetryDelayMs * Pow2(attempts - 1), BackoffCapMs)

\* const updateProgress = () => { onProgress?.({ ...stats }) }: the snapshots
\* one call hands to the observer (none when the config has no onProgress),
\* st being the stats at the call
updateProgress(st) == IF cfg.onProgress THEN <<st>> ELSE <<>>

\* The snapshots of the latest step that called updateProgress, after a step
\* that delivered `delivered`
Latest(delivered) == IF delivered = <<>> THEN progress ELSE delivered

\* Faulty variant of OnFailure: a retryable failure is retried at once,
\* without the backoff sleep
OnFailureNoBackoff(tk, st, msg) ==
    LET r == LoopHead([tk EXCEPT !.lastError = msg, !.calls.onTaskError = @ + 1], st)
    IN  [t |-> r.t, stats |-> r.stats, delivered |-> <<>>]

\* The catch block of processTask, and what follows it without suspension
OnFailure(tk, st, msg) ==
    LET failedTk == [tk EXCEPT !.lastError = msg]
        willRetry == tk.attempts < cfg.maxRetries /\ RetryableTable[msg]
    IN  IF msg = NoMessage
        THEN \* error.message.toLowerCase() and lastError?.message.includes(...)
             \* throw a TypeError inside the catch block: processTask rejects
             [t |-> [failedTk EXCEPT !.pc = "thrown"], stats |-> st, delivered |-> <<>>]
        ELSE IF willRetry
        THEN LET counted == [st EXCEPT !.retrying = @ + 1]
             IN  [t |-> [failedTk EXCEPT !.pc = "sleeping",
                                         !.backoffDelay = BackoffDelay(tk.attempts),
                                         !.calls.onTaskError = @ + 1],
                  stats |-> counted,
                  delivered |-> updateProgress(counted)]
        ELSE LET r == LoopHead([failedTk EXCEPT !.calls.onTaskError = @ + 1], st)
             IN  [t |-> r.t, stats |-> r.stats, delivered |-> <<>>]

\* Faulty variant of OnSuccess: a success after a retry is not counted
OnSuccessUncountedAfterRetry(tk, st) ==
    [t |-> [tk EXCEPT !.pc = "returned", !.status = "success",
                      !.calls.onTaskComplete = @ + 1],
     stats |-> [st EXCEPT !.succeeded = IF tk.attempts > 1 THEN @ ELSE @ + 1,
                          !.retrying = IF tk.attempts > 1 THEN @ - 1 ELSE @]]

\* Faulty variant of OnSuccess: stats.retrying-- without the test of attempts
OnSuccessAlwaysDecrements(tk, st) ==
    [t |-> [tk EXCEPT !.pc = "returned", !.status = "success",
                      !.calls.onTaskComplete = @ + 1],
     stats |-> [st EXCEPT !.succeeded = @ + 1, !.retrying = @ - 1]]

\* The success path of processTask
OnSuccess(tk, st) ==
    [t |-> [tk EXCEPT !.pc = "returned", !.status = "success",
                      !.calls.onTaskComplete = @ + 1],
     stats |-> [st EXCEPT !.succeeded = @ + 1,
                          !.retrying = IF tk.attempts > 1 THEN @ - 1 ELSE @]]

\* results.sort((a, b) => a.index - b.index)
RECURSIVE InsertByIndex(_, _)
InsertByIndex(sorted, r) ==
    IF sorted = <<>> THEN <<r>>
    ELSE IF r.index - Head(sorted).index < 0 THEN <<r>> \o sorted
    ELSE <<Head(sorted)>> \o InsertByIndex(Tail(sorted), r)

\* Faulty variant of SortByIndex: the results are returned in completion order
SortByIndexOmitted(rs) == rs

RECURSIVE SortByIndex(_)
SortByIndex(rs) ==
    IF rs = <<>> THEN <<>>
    ELSE InsertByIndex(SortByIndex(SubSeq(rs, 1, Len(rs) - 1)), rs[Len(rs)])

\* Faulty variant of WorkerLoopHead: the cursor is read but not advanced
\* (const currentIndex = queueIndex)
WorkerLoopHeadPeeks(tasks, st, delivered) ==
    IF queueIndex < cfg.n /\ tasks[queueIndex].claims < 2
    THEN LET currentIndex == queueIndex
             claimed == [st EXCEPT !.inProgress = @ + 1]
             r == LoopHead([tasks[currentIndex] EXCEPT !.claims = @ + 1], claimed)
         IN  /\ UNCHANGED queueIndex
             /\ t' = [tasks EXCEPT ![currentIndex] = r.t]
             /\ stats' = r.stats
             /\ progress' = Latest(delivered \o updateProgress(claimed))
             /\ UNCHANGED workersDone
    ELSE /\ workersDone' = workersDone + 1
         /\ t' = tasks
         /\ stats' = st
         /\ progress' = Latest(delivered)
         /\ UNCHANGED queueIndex

\* Faulty variant of WorkerLoopHead: a worker that finds the queue empty
\* never resolves
WorkerLoopHeadHangs(tasks, st, delivered) ==
    IF queueIndex < cfg.n
    THEN LET currentIndex == queueIndex
             claimed == [st EXCEPT !.inProgress = @ + 1]
             r == LoopHead([tasks[currentIndex] EXCEPT !.claims = @ + 1], claimed)
         IN  /\ queueIndex' = queueIndex + 1
             /\ t' = [tasks EXCEPT ![currentIndex] = r.t]
             /\ stats' = r.stats
             /\ progress' = Latest(delivered \o updateProgress(claimed))
             /\ UNCHANGED workersDone
    ELSE /\ t' = tasks
         /\ stats' = st
         /\ progress' = Latest(delivered)
         /\ UNCHANGED <<queueIndex, workersDone>>

\* One pass of the worker's while loop, from its test to `await processTask`
\* (st: the stats as the code before the pass left them).  A worker that is
\* suspended is identified by the index it claimed.
WorkerLoopHead(tasks, st, delivered) ==
    IF queueIndex < cfg.n
    THEN LET currentIndex == queueIndex
             claimed == [st EXCEPT !.inProgress = @ + 1]
             r == LoopHead([tasks[currentIndex] EXCEPT !.claims = @ + 1], claimed)
         IN  /\ queueIndex' = queueIndex + 1
             /\ t' = [tasks EXCEPT ![currentIndex] = r.t]
             /\ stats' = r.stats
             /\ progress' = Latest(delivered \o updateProgress(claimed))
             /\ UNCHANGED workersDone
    ELSE /\ workersDone' = workersDone + 1
         /\ t' = tasks
         /\ stats' = st
         /\ progress' = Latest(delivered)
         /\ UNCHANGED queueIndex

\* for (let i = 0; i < workerCount; i++) workers.push(worker())
Launch ==
    /\ mainPc = "launching"
    /\ launched < workerCount
    /\ launched' = launched + 1
    /\ WorkerLoopHead(t, stats, <<>>)
    /\ UNCHANGED <<cfg, mainPc, results, returned>>
    /\ UNCHANGED limiterVars

\* await Promise.all(workers)
AwaitAll ==
    /\ mainPc = "launching"
    /\ launched = workerCount
    /\ mainPc' = "awaiting"
    /\ UNCHANGED <<cfg, launched, stats, queueIndex, results, returned, workersDone, t,
                   progress>>
    /\ UNCHANGED limiterVars

MayResolve(i) == cfg.executor[i] \in {"any", "resolves", "flaky"}

MayReject(i, msg) ==
    \/ cfg.executor[i] = "any"
    \/ cfg.executor[i] \in {"rejectsEconnreset", "flaky"} /\ msg = MsgEconnreset
    \/ cfg.executor[i] = "rejectsInvalidInput" /\ msg = MsgInvalidInput

MayOutliveTimer(i) == cfg.executor[i] \in {"any", "outlivesTimer"}

\* clearTimeout(timer) in the then and catch callbacks of withTimeout
ClearTimeout(tk) == [tk EXCEPT !.timer = FALSE]

\* The execution function resolves before the timer fires
ExecResolve(i) ==
    /\ mainPc = "awaiting"
    /\ t[i].pc = "awaiting"
    /\ MayResolve(i)
    /\ LET r == OnSuccess(ClearTimeout(t[i]), stats)
       IN  t' = [t EXCEPT ![i] = r.t] /\ stats' = r.stats
    /\ UNCHANGED <<cfg, mainPc, launched, queueIndex, results, returned, workersDone, progress>>
    /\ UNCHANGED limiterVars

\* The execution function rejects before the timer fires
ExecReject(i, msg) ==
    /\ mainPc = "awaiting"
    /\ t[i].pc = "awaiting"
    /\ MayReject(i, msg)
    /\ LET r == OnFailure(ClearTimeout(t[i]), stats,
                          ToLastError([type |-> "Error", chars |-> msg]))
       IN  /\ t' = [t EXCEPT ![i] = r.t]
           /\ stats' = r.stats
           /\ progress' = Latest(r.delivered)
    /\ UNCHANGED <<cfg, mainPc, launched, queueIndex, results, returned, workersDone>>
    /\ UNCHANGED limiterVars

\* The execution function rejects, before the timer fires, with a value
\* that is not an Error
ExecRejectValue(i, value) ==
    /\ mainPc = "awaiting"
    /\ t[i].pc = "awaiting"
    /\ cfg.executor[i] = "any"
    /\ LET r == OnFailure(ClearTimeout(t[i]), stats, ToLastError(value))
       IN  /\ t' = [t EXCEPT ![i] = r.t]
           /\ stats' = r.stats
           /\ progress' = Latest(r.delivered)
    /\ UNCHANGED <<cfg, mainPc, launched, queueIndex, results, returned, workersDone>>
    /\ UNCHANGED limiterVars

\* withTimeout's timer fires first: the attempt is rejected, the execution
\* function keeps running
TimerFire(i) ==
    /\ mainPc = "awaiting"
    /\ t[i].pc = "awaiting"
    /\ MayOutliveTimer(i)
    /\ t[i].timer
    /\ LET orphaned == [t[i] EXCEPT !.orphans = @ + 1, !.timer = FALSE]
           r == OnFailure(orphaned, stats,
                          ToLastError([type |-> "Error", chars |-> TimeoutMessage(i)]))
       IN  /\ t' = [t EXCEPT ![i] = r.t]
           /\ stats' = r.stats
           /\ progress' = Latest(r.delivered)
    /\ UNCHANGED <<cfg, mainPc, launched, queueIndex, results, returned, workersDone>>
    /\ UNCHANGED limiterVars

\* Faulty variant of OrphanSettle: the late result of the execution function
\* is taken for the result of the task
OrphanSettleCounts(i) ==
    /\ mainPc \in {"awaiting", "returned"}
    /\ t[i].orphans > 0
    /\ t' = [t EXCEPT ![i].orphans = @ - 1, ![i].status = "success"]
    /\ stats' = [stats EXCEPT !.succeeded = @ + 1]
    /\ UNCHANGED <<cfg, mainPc, launched, queueIndex, results, returned, workersDone, progress>>
    /\ UNCHANGED limiterVars

\* An execution whose attempt the timer already ended settles: clearTimeout
\* and resolve/reject of the settled race promise have no effect
OrphanSettle(i) ==
    /\ mainPc \in {"awaiting", "returned"}
    /\ t[i].orphans > 0
    /\ t' = [t EXCEPT ![i].orphans = @ - 1]
    /\ UNCHANGED <<cfg, mainPc, launched, stats, queueIndex, results, returned, workersDone,
                   progress>>
    /\ UNCHANGED limiterVars

\* The backoff delay elapses: stats.retrying--, then the next loop pass
\* (the block that declares backoffDelay is left)
SleepDone(i) ==
    /\ mainPc = "awaiting"
    /\ t[i].pc = "sleeping"
    /\ LET r == LoopHead([t[i] EXCEPT !.backoffDelay = 0],
                         [stats EXCEPT !.retrying = @ - 1])
       IN  t' = [t EXCEPT ![i] = r.t] /\ stats' = r.stats
    /\ UNCHANGED <<cfg, mainPc, launched, queueIndex, results, returned, workersDone, progress>>
    /\ UNCHANGED limiterVars

\* Faulty variant of WorkerResume: the snapshot is delivered between
\* stats.inProgress-- and stats.completed++
WorkerResumeSnapshotEarly(i) ==
    /\ mainPc = "awaiting"
    /\ t[i].pc = "returned"
    /\ results' = Append(results, [index |-> i, status |-> t[i].status,
                                   attempts |-> t[i].attempts])
    /\ LET settled == [stats EXCEPT !.inProgress = @ - 1, !.completed = @ + 1]
       IN  WorkerLoopHead([t EXCEPT ![i].pc = "recorded",
                                    ![i].position = Len(results) + 1],
                          settled,
                          updateProgress([stats EXCEPT !.inProgress = @ - 1]))
    /\ UNCHANGED <<cfg, mainPc, launched, returned>>
    /\ UNCHANGED limiterVars

\* Faulty variant of WorkerResume: the worker does not report after
\* recording an outcome (no updateProgress after stats.completed++)
WorkerResumeUnreported(i) ==
    /\ mainPc = "awaiting"
    /\ t[i].pc = "returned"
    /\ results' = Append(results, [index |-> i, status |-> t[i].status,
                                   attempts |-> t[i].attempts])
    /\ LET settled == [stats EXCEPT !.inProgress = @ - 1, !.completed = @ + 1]
       IN  WorkerLoopHead([t EXCEPT ![i].pc = "recorded",
                                    ![i].position = Len(results) + 1],
                          settled, <<>>)
    /\ UNCHANGED <<cfg, mainPc, launched, returned>>
    /\ UNCHANGED limiterVars

\* The worker that claimed index i resumes after `await processTask(...)`,
\* records the outcome and runs its next loop pass
WorkerResume(i) ==
    /\ mainPc = "awaiting"
    /\ t[i].pc = "returned"
    /\ results' = Append(results, [index |-> i, status |-> t[i].status,
                                   attempts |-> t[i].attempts])
    /\ LET settled == [stats EXCEPT !.inProgress = @ - 1, !.completed = @ + 1]
       IN  WorkerLoopHead([t EXCEPT ![i].pc = "recorded",
                                    ![i].position = Len(results) + 1],
                          settled, updateProgress(settled))
    /\ UNCHANGED <<cfg, mainPc, launched, returned>>
    /\ UNCHANGED limiterVars

\* Promise.all resolved: sort the results in place and return them
Finish ==
    /\ mainPc = "awaiting"
    /\ workersDone = workerCount
    /\ results' = SortByIndex(results)
    /\ returned' = SortByIndex(results)
    /\ mainPc' = "returned"
    /\ UNCHANGED <<cfg, launched, stats, queueIndex, workersDone, t, progress>>
    /\ UNCHANGED limiterVars

LimiterIdle ==
    /\ now = 0
    /\ rateLimit = <<>>
    /\ states = <<>>
    /\ waitQueue = <<>>
    /\ callers = <<>>

\* The state after the destructuring and the declarations of lines 96-131,
\* for a config drawn from the given task counts, retry caps and executors
RunnerInit(taskCounts, retryCaps, executors, observers) ==
    /\ \E n \in taskCounts : \E c \in 1..MaxConcurrency : \E r \in retryCaps :
          \E e \in [0..(n - 1) -> executors] : \E o \in observers :
              cfg = [n |-> n, concurrency |-> c, maxRetries |-> r, executor |-> e,
                     onProgress |-> o]
    /\ mainPc = "launching"
    /\ launched = 0
    /\ stats = InitStats
    /\ queueIndex = 0
    /\ results = <<>>
    /\ returned = <<>>
    /\ workersDone = 0
    /\ t = [i \in Indices |-> InitTask]
    /\ progress = <<>>
    /\ LimiterIdle

Init == RunnerInit(0..MaxTasks, 1..MaxRetriesBound, {"any"}, {FALSE})

Next ==
    \/ Launch
    \/ AwaitAll
    \/ \E i \in Indices : ExecResolve(i)
    \/ \E i \in Indices : \E msg \in ExecMessages : ExecReject(i, msg)
    \/ \E i \in Indices : TimerFire(i)
    \/ \E i \in Indices : OrphanSettle(i)
    \/ \E i \in Indices : SleepDone(i)
    \/ \E i \in Indices : WorkerResume(i)
    \/ Finish

Spec == Init /\ [][Next]_vars

\* ---- the run under fair scheduling: the launch loop runs to its end, a
\* timer that was set fires, a promise that settled has its continuation
\* run.  Nothing is assumed of the execution functions. ----
Fairness ==
    /\ WF_vars(Launch)
    /\ WF_vars(AwaitAll)
    /\ WF_vars(Finish)
    /\ \A i \in 0..(MaxTasks - 1) :
           /\ WF_vars(i \in Indices /\ TimerFire(i))
           /\ WF_vars(i \in Indices /\ SleepDone(i))
           /\ WF_vars(i \in Indices /\ WorkerResume(i))

SpecFair == Init /\ [][Next]_vars /\ Fairness

\* ---- the run with an executor that behaves the same way at every attempt ----
InitScripted == RunnerInit(0..MaxTasks, 1..MaxRetriesBound, Executors \ {"any"}, {FALSE})

SpecScripted == InitScripted /\ [][Next]_vars

\* ---- the run with an executor that also rejects with values that are not
\* Error objects (one task fewer, each attempt having more outcomes) ----
InitAnyRejection == RunnerInit(0..(MaxTasks - 1), 1..MaxRetriesBound, {"any"}, {FALSE})

NextAnyRejection ==
    \/ Next
    \/ \E i \in Indices : \E value \in RejectValues : ExecRejectValue(i, value)

SpecAnyRejection == InitAnyRejection /\ [][NextAnyRejection]_vars

\* ---- the run of a single task with a retry cap large enough to reach the
\* cap of the backoff ----
InitBackoff == RunnerInit({1}, 1..MaxBackoffRetries, {"any"}, {FALSE})

SpecBackoff == InitBackoff /\ [][Next]_vars

\* ---- the run with a progress observer (config.onProgress is supplied) and
\* an executor that behaves the same way at every attempt ----
InitObserved == RunnerInit(0..MaxTasks, 1..MaxRetriesBound, Executors \ {"any"}, {TRUE})

SpecObserved == InitObserved /\ [][Next]_vars

(***************************************************************************)
(* RateLimiter                                                             *)
(*                                                                         *)
(* tokens is kept in units of 1/60000 token, so that the refill            *)
(* (limit / 60000) * elapsedTime is exact: tokens here = 60000 * tokens    *)
(* there.  A caller is one call of acquire followed by one call of         *)
(* release.                                                                *)
(***************************************************************************)
ModelId == "m1"

TickMs == WindowSize \div TicksPerWindow

\* job: the place of a resolved waiter's then-callback among the promise
\* jobs that are pending (0: none pending); promise jobs run in the order in
\* which their promises were resolved
InitCaller == [pc |-> "idle", id |-> ModelId, limit |-> 0, cost |-> 0,
               due |-> 0, admittedAt |-> -1, job |-> 0]

\* Faulty variant of GetState: a new bucket starts with one token
GetStateFullBucket(sts, id) ==
    IF id \in DOMAIN sts THEN sts
    ELSE (id :> [tokens |-> WindowSize, lastRefill |-> now, requestsInWindow |-> <<>>,
                 activeRequests |-> 0]) @@ sts

\* Faulty variant of GetState: creating the state of a modelId replaces the
\* whole map
GetStateReplacesMap(sts, id) ==
    IF id \in DOMAIN sts THEN sts
    ELSE (id :> [tokens |-> 0, lastRefill |-> now, requestsInWindow |-> <<>>,
                 activeRequests |-> 0])

\* getState: the state of modelId, created on first use
GetState(sts, id) ==
    IF id \in DOMAIN sts THEN sts
    ELSE (id :> [tokens |-> 0, lastRefill |-> now, requestsInWindow |-> <<>>,
                 activeRequests |-> 0]) @@ sts

\* this.waitQueue.get(modelId) || []
QueueOf(id) == IF id \in DOMAIN waitQueue THEN waitQueue[id] ELSE <<>>

Admit(c, id, limit, cost, pc) ==
    [callers EXCEPT ![c] = [pc |-> pc, id |-> id, limit |-> limit, cost |-> cost,
                            due |-> callers[c].due, admittedAt |-> now, job |-> 0]]

Suspend(c, id, limit, cost, pc, due) ==
    [callers EXCEPT ![c] = [pc |-> pc, id |-> id, limit |-> limit, cost |-> cost,
                            due |-> due, admittedAt |-> -1, job |-> 0]]

\* waitForConcurrency up to its return or its suspension in the wait queue
waitForConcurrency(c, id, limit, sts0) ==
    LET sts == GetState(sts0, id) IN
    IF sts[id].activeRequests < limit
    THEN /\ states' = [sts EXCEPT ![id].activeRequests = @ + 1]
         /\ callers' = Admit(c, id, limit, 0, "admitted")
         /\ UNCHANGED waitQueue
    ELSE /\ states' = sts
         /\ waitQueue' = (id :> Append(QueueOf(id), c)) @@ waitQueue
         /\ callers' = Suspend(c, id, limit, 0, "queued", 0)

\* Faulty variant of Prune: a timestamp exactly one window old is kept
PruneInclusive(requestsInWindow) ==
    SelectSeq(requestsInWindow, LAMBDA ts : ts >= now - WindowSize)

\* Faulty variant of Prune: the comparison is inverted, old entries are kept
PruneInverted(requestsInWindow) ==
    SelectSeq(requestsInWindow, LAMBDA ts : ts < now - WindowSize)

\* state.requestsInWindow.filter(t => t > now - windowSize)
Prune(requestsInWindow) == SelectSeq(requestsInWindow, LAMBDA ts : ts > now - WindowSize)

\* waitForRPM up to its return or its suspension on the timer
waitForRPM(c, id, limit, sts0) ==
    LET sts == GetState(sts0, id)
        pruned == Prune(sts[id].requestsInWindow)
    IN  /\ UNCHANGED waitQueue
        /\ IF Len(pruned) < limit
           THEN /\ states' = [sts EXCEPT ![id].requestsInWindow = Append(pruned, now)]
                /\ callers' = Admit(c, id, limit, 0, "returning")
           ELSE LET oldest == pruned[1]
                    waitTime == oldest + WindowSize - now
                IN  IF waitTime > 0
                    THEN /\ states' = [sts EXCEPT ![id].requestsInWindow = pruned]
                         /\ callers' = Suspend(c, id, limit, 0, "rpmWait", now + waitTime)
                    ELSE /\ states' = [sts EXCEPT ![id].requestsInWindow = Append(pruned, now)]
                         /\ callers' = Admit(c, id, limit, 0, "returning")

\* Faulty variant of Refill: lastRefill is left as it was
RefillStale(st, limit) ==
    [st EXCEPT !.tokens = Min(limit * WindowSize, @ + limit * (now - st.lastRefill))]

\* Faulty variant of Refill: the bucket is not capped at the limit
RefillUncapped(st, limit) ==
    [st EXCEPT !.tokens = @ + limit * (now - st.lastRefill),
               !.lastRefill = now]

\* tokens = Math.min(limit, tokens + (limit / 60000) * elapsed); lastRefill = now
Refill(st, limit) ==
    [st EXCEPT !.tokens = Min(limit * WindowSize, @ + limit * (now - st.lastRefill)),
               !.lastRefill = now]

\* state.tokens -= cost
Debit(st, cost) == [st EXCEPT !.tokens = @ - cost * WindowSize]

\* waitForTPM up to its return or its suspension on the timer; setTimeout
\* takes the integer part of waitTime = needed / refillRate
waitForTPM(c, id, limit, cost, sts0) ==
    LET sts == GetState(sts0, id)
        refilled == Refill(sts[id], limit)
    IN  /\ UNCHANGED waitQueue
        /\ IF refilled.tokens >= cost * WindowSize
           THEN /\ states' = [sts EXCEPT ![id] = Debit(refilled, cost)]
                /\ callers' = Admit(c, id, limit, cost, "returning")
           ELSE LET needed == cost * WindowSize - refilled.tokens
                    waitTime == needed \div limit
                IN  /\ states' = [sts EXCEPT ![id] = refilled]
                    /\ callers' = Suspend(c, id, limit, cost, "tpmWait", now + waitTime)

\* Faulty variant of Acquire: a resource without a rateLimit is not gated
AcquireUngated(c, id, cost) ==
    /\ callers[c].pc = "idle"
    /\ LET rl == rateLimit[id] IN
       IF rl.type = "none"
       THEN /\ states' = [GetState(states, id) EXCEPT ![id].activeRequests = @ + 1]
            /\ callers' = Admit(c, id, 0, 0, "admitted")
            /\ UNCHANGED waitQueue
       ELSE IF rl.type = "concurrency"
       THEN waitForConcurrency(c, id, rl.value, GetState(states, id))
       ELSE IF rl.type = "rpm"
       THEN waitForRPM(c, id, rl.value, GetState(states, id))
       ELSE waitForTPM(c, id, rl.value, cost, GetState(states, id))
    /\ UNCHANGED <<now, rateLimit>>
    /\ UNCHANGED runnerVars

\* acquire(modelConfig, estimatedTokens) up to its first suspension
Acquire(c, id, cost) ==
    /\ callers[c].pc = "idle"
    /\ LET rl == rateLimit[id] IN
       IF rl.type = "none"
       THEN waitForConcurrency(c, id, DefaultConcurrency, states)
       ELSE IF rl.type = "concurrency"
       THEN waitForConcurrency(c, id, rl.value, GetState(states, id))
       ELSE IF rl.type = "rpm"
       THEN waitForRPM(c, id, rl.value, GetState(states, id))
       ELSE waitForTPM(c, id, rl.value, cost, GetState(states, id))
    /\ UNCHANGED <<now, rateLimit>>
    /\ UNCHANGED runnerVars

\* The .then(() => { state.activeRequests++ }) of a waiter that release resolved
Resume(c) ==
    /\ callers[c].pc = "woken"
    /\ callers[c].job = 1
    /\ states' = [states EXCEPT ![callers[c].id].activeRequests = @ + 1]
    /\ callers' = [d \in DOMAIN callers |->
                      IF d = c
                      THEN [callers[d] EXCEPT !.pc = "admitted", !.admittedAt = now,
                                              !.job = 0]
                      ELSE IF callers[d].pc = "woken"
                      THEN [callers[d] EXCEPT !.job = @ - 1]
                      ELSE callers[d]]
    /\ UNCHANGED <<now, rateLimit, waitQueue>>
    /\ UNCHANGED runnerVars

\* acquire resumes after `await this.waitForRPM/TPM(...)`: state.activeRequests++
AcquireReturn(c) ==
    /\ callers[c].pc = "returning"
    /\ states' = [states EXCEPT ![callers[c].id].activeRequests = @ + 1]
    /\ callers' = [callers EXCEPT ![c].pc = "admitted"]
    /\ UNCHANGED <<now, rateLimit, waitQueue>>
    /\ UNCHANGED runnerVars

\* Faulty variant of RpmTimer: the caller is admitted when its timer fires,
\* without looking at the window again
RpmTimerAdmits(c) ==
    /\ callers[c].pc = "rpmWait"
    /\ now >= callers[c].due
    /\ states' = [states EXCEPT ![callers[c].id].requestsInWindow =
                                    Append(Prune(@), now)]
    /\ callers' = Admit(c, callers[c].id, callers[c].limit, 0, "returning")
    /\ UNCHANGED <<now, rateLimit, waitQueue>>
    /\ UNCHANGED runnerVars

\* The timer of waitForRPM fires: return this.waitForRPM(modelId, limit)
RpmTimer(c) ==
    /\ callers[c].pc = "rpmWait"
    /\ now >= callers[c].due
    /\ waitForRPM(c, callers[c].id, callers[c].limit, states)
    /\ UNCHANGED <<now, rateLimit>>
    /\ UNCHANGED runnerVars

\* Faulty variant of TpmTimer: after the wait the bucket is tested again and
\* the caller waits once more when the tokens do not cover the cost
TpmTimerRechecks(c) ==
    /\ callers[c].pc = "tpmWait"
    /\ now >= callers[c].due
    /\ waitForTPM(c, callers[c].id, callers[c].limit, callers[c].cost, states)
    /\ UNCHANGED <<now, rateLimit>>
    /\ UNCHANGED runnerVars

\* The timer of waitForTPM fires: refill from the newly elapsed time and debit
TpmTimer(c) ==
    /\ callers[c].pc = "tpmWait"
    /\ now >= callers[c].due
    /\ LET id == callers[c].id
           refilled == Refill(states[id], callers[c].limit)
       IN  states' = [states EXCEPT ![id] = Debit(refilled, callers[c].cost)]
    /\ callers' = [callers EXCEPT ![c].pc = "returning", ![c].admittedAt = now]
    /\ UNCHANGED <<now, rateLimit, waitQueue>>
    /\ UNCHANGED runnerVars

\* Faulty variant of Decrement: state.activeRequests - 1, without the floor
DecrementUnfloored(activeRequests) == activeRequests - 1

\* state.activeRequests = Math.max(0, state.activeRequests - 1)
Decrement(activeRequests) == Max(0, activeRequests - 1)

\* Faulty variant of Shift: queue.pop(), the newest waiter
ShiftLast(queue) == [next |-> queue[Len(queue)], rest |-> SubSeq(queue, 1, Len(queue) - 1)]

\* queue.shift()
Shift(queue) == [next |-> Head(queue), rest |-> Tail(queue)]

\* The place after the last pending then-callback
NextJob == 1 + Cardinality({d \in DOMAIN callers : callers[d].pc = "woken"})

\* Faulty variant of Release: processQueue looks at the strategy and resolves
\* a waiter only for a resource under the concurrency strategy
ReleaseConcurrencyOnly(c) ==
    /\ callers[c].pc = "admitted"
    /\ LET id == callers[c].id
           sts == GetState(states, id)
           queue == QueueOf(id)
       IN  /\ states' = [sts EXCEPT ![id].activeRequests = Decrement(@)]
           /\ IF queue = <<>> \/ rateLimit[id].type \in {"rpm", "tpm"}
              THEN /\ callers' = [callers EXCEPT ![c].pc = "done"]
                   /\ UNCHANGED waitQueue
              ELSE /\ callers' = [callers EXCEPT ![c].pc = "done",
                                                 ![Shift(queue).next].pc = "woken",
                                                 ![Shift(queue).next].job = NextJob]
                   /\ waitQueue' = [waitQueue EXCEPT ![id] = Shift(queue).rest]
    /\ UNCHANGED <<now, rateLimit>>
    /\ UNCHANGED runnerVars

\* Faulty variant of Release: release does not call processQueue
ReleaseForgetsQueue(c) ==
    /\ callers[c].pc = "admitted"
    /\ LET id == callers[c].id
           sts == GetState(states, id)
       IN  states' = [sts EXCEPT ![id].activeRequests = Decrement(@)]
    /\ callers' = [callers EXCEPT ![c].pc = "done"]
    /\ UNCHANGED <<now, rateLimit, waitQueue>>
    /\ UNCHANGED runnerVars

\* release(modelId) with processQueue, by a caller whose acquire returned
Release(c) ==
    /\ callers[c].pc = "admitted"
    /\ LET id == callers[c].id
           sts == GetState(states, id)
           queue == QueueOf(id)
       IN  /\ states' = [sts EXCEPT ![id].activeRequests = Decrement(@)]
           /\ IF queue = <<>>
              THEN /\ callers' = [callers EXCEPT ![c].pc = "done"]
                   /\ UNCHANGED waitQueue
              ELSE /\ callers' = [callers EXCEPT ![c].pc = "done",
                                                 ![Shift(queue).next].pc = "woken",
                                                 ![Shift(queue).next].job = NextJob]
                   /\ waitQueue' = [waitQueue EXCEPT ![id] = Shift(queue).rest]
    /\ UNCHANGED <<now, rateLimit>>
    /\ UNCHANGED runnerVars

\* release(modelId) by code that holds no admission: a release without a
\* matching acquire, or for a modelId that no acquire has seen
StrayRelease(id) ==
    /\ LET sts == GetState(states, id)
           queue == QueueOf(id)
       IN  /\ states' = [sts EXCEPT ![id].activeRequests = Decrement(@)]
           /\ IF queue = <<>>
              THEN UNCHANGED <<waitQueue, callers>>
              ELSE /\ callers' = [callers EXCEPT ![Shift(queue).next].pc = "woken",
                                                 ![Shift(queue).next].job = NextJob]
                   /\ waitQueue' = [waitQueue EXCEPT ![id] = Shift(queue).rest]
    /\ UNCHANGED <<now, rateLimit>>
    /\ UNCHANGED runnerVars

\* A caller whose request is over starts another one: its next call of acquire
Again(c) ==
    /\ callers[c].pc = "done"
    /\ callers' = [callers EXCEPT ![c] = InitCaller]
    /\ UNCHANGED <<now, rateLimit, states, waitQueue>>
    /\ UNCHANGED runnerVars

\* The configuration of the resource is edited: later acquire calls carry a
\* rateLimit of another type (the limiter keeps no configuration of its own)
ChangeStrategy(id, type, value) ==
    /\ rateLimit[id].type = "concurrency"
    /\ type \in {"rpm", "tpm"}
    /\ rateLimit' = [rateLimit EXCEPT ![id] = [type |-> type, value |-> value]]
    /\ UNCHANGED <<now, states, waitQueue, callers>>
    /\ UNCHANGED runnerVars

\* Time passes
Tick ==
    /\ now < MaxTicks * TickMs
    /\ now' = now + TickMs
    /\ UNCHANGED <<rateLimit, states, waitQueue, callers>>
    /\ UNCHANGED runnerVars

\* Time passes until the timer of c is due.  callers[c].due is the integer
\* part of the instant asked for: when waitTime has a fractional part (tpm
\* only, rpm waits are whole milliseconds) the next millisecond is the first
\* instant that is not before it
Elapse(c) ==
    /\ callers[c].pc \in {"rpmWait", "tpmWait"}
    /\ \E late \in (IF callers[c].pc = "tpmWait" THEN {0, 1} ELSE {0}) :
          /\ now < callers[c].due + late
          /\ now' = callers[c].due + late
    /\ UNCHANGED <<rateLimit, states, waitQueue, callers>>
    /\ UNCHANGED runnerVars

RunnerIdle ==
    /\ cfg = [n |-> 0, concurrency |-> 1, maxRetries |-> 1, executor |-> <<>>,
              onProgress |-> FALSE]
    /\ mainPc = "idle"
    /\ launched = 0
    /\ stats = InitStats
    /\ queueIndex = 0
    /\ results = <<>>
    /\ returned = <<>>
    /\ workersDone = 0
    /\ t = <<>>
    /\ progress = <<>>

LimiterInit(type, n) ==
    /\ now = 0
    /\ \E value \in 1..MaxLimit : rateLimit = (ModelId :> [type |-> type, value |-> value])
    /\ states = <<>>
    /\ waitQueue = <<>>
    /\ callers = [c \in 1..n |-> InitCaller]
    /\ RunnerIdle

\* ---- a resource under the concurrency strategy ----
InitConcurrency == LimiterInit("concurrency", NumCallers)

NextConcurrency ==
    \/ \E c \in DOMAIN callers : Acquire(c, ModelId, 0)
    \/ \E c \in DOMAIN callers : Resume(c)
    \/ \E c \in DOMAIN callers : Release(c)

SpecConcurrency == InitConcurrency /\ [][NextConcurrency]_vars

\* ---- the same under fair scheduling: every caller that was admitted calls
\* release, and the then-callback of a resolved waiter runs ----
ConcurrencyFairness ==
    \A c \in 1..NumCallers :
        /\ WF_vars(c \in DOMAIN callers /\ Release(c))
        /\ WF_vars(c \in DOMAIN callers /\ Resume(c))

SpecConcurrencyFair == InitConcurrency /\ [][NextConcurrency]_vars /\ ConcurrencyFairness

\* ---- a resource whose configuration has no rateLimit ----
InitDefault ==
    /\ now = 0
    /\ rateLimit = (ModelId :> [type |-> "none", value |-> 0])
    /\ states = <<>>
    /\ waitQueue = <<>>
    /\ callers = [c \in 1..NumDefaultCallers |-> InitCaller]
    /\ RunnerIdle

SpecDefault == InitDefault /\ [][NextConcurrency]_vars

\* ---- a resource under the concurrency strategy, with releases that match
\* no acquire, some of them for a modelId that no acquire has seen ----
OtherId == "m2"

InitStray == LimiterInit("concurrency", NumStrayCallers)

NextStray ==
    \/ \E c \in DOMAIN callers : Acquire(c, ModelId, 0)
    \/ \E c \in DOMAIN callers : Resume(c)
    \/ \E c \in DOMAIN callers : Release(c)
    \/ \E id \in {ModelId, OtherId} : StrayRelease(id)

SpecStray == InitStray /\ [][NextStray]_vars

\* ---- two resources, each under any of the three strategies with a limit
\* of one, shared by callers that pick either resource and ask for one
\* token; the clock shows the start or the end of the first window ----
Resources == {ModelId, OtherId}

InitTwoResources ==
    /\ now = 0
    /\ rateLimit \in [Resources -> [type : {"concurrency", "rpm", "tpm"}, value : {1}]]
    /\ states = <<>>
    /\ waitQueue = <<>>
    /\ callers = [c \in 1..NumFrameCallers |-> InitCaller]
    /\ RunnerIdle

\* A whole window passes
WindowPasses ==
    /\ now = 0
    /\ now' = WindowSize
    /\ UNCHANGED <<rateLimit, states, waitQueue, callers>>
    /\ UNCHANGED runnerVars

NextTwoResources ==
    \/ \E c \in DOMAIN callers : \E id \in Resources : Acquire(c, id, 1)
    \/ \E c \in DOMAIN callers : Resume(c)
    \/ \E c \in DOMAIN callers : RpmTimer(c)
    \/ \E c \in DOMAIN callers : TpmTimer(c)
    \/ \E c \in DOMAIN callers : AcquireReturn(c)
    \/ \E c \in DOMAIN callers : Release(c)
    \/ WindowPasses

SpecTwoResources == InitTwoResources /\ [][NextTwoResources]_vars

\* ---- a resource that starts under the concurrency strategy and is
\* reconfigured to rpm or tpm, with the same number as its limit, while
\* waiters are parked in its queue ----
InitMixed == LimiterInit("concurrency", NumMixedCallers)

NextMixed ==
    \/ \E c \in DOMAIN callers : \E cost \in 0..MaxCost : Acquire(c, ModelId, cost)
    \/ \E c \in DOMAIN callers : Resume(c)
    \/ \E c \in DOMAIN callers : RpmTimer(c)
    \/ \E c \in DOMAIN callers : TpmTimer(c)
    \/ \E c \in DOMAIN callers : AcquireReturn(c)
    \/ \E c \in DOMAIN callers : Release(c)
    \/ \E c \in DOMAIN callers : Again(c)
    \/ \E type \in {"rpm", "tpm"} :
           /\ QueueOf(ModelId) # <<>>
           /\ ChangeStrategy(ModelId, type, rateLimit[ModelId].value)
    \/ now < WindowSize /\ Tick

SpecMixed == InitMixed /\ [][NextMixed]_vars

\* ---- a resource under the rpm strategy ----
InitRPM == LimiterInit("rpm", NumRpmCallers)

NextRPM ==
    \/ \E c \in DOMAIN callers : Acquire(c, ModelId, 0)
    \/ \E c \in DOMAIN callers : RpmTimer(c)
    \/ \E c \in DOMAIN callers : AcquireReturn(c)
    \/ \E c \in DOMAIN callers : Release(c)
    \/ Tick

SpecRPM == InitRPM /\ [][NextRPM]_vars

\* ---- the same as time advances: the clock reaches the instant every
\* pending timer is due, a due timer fires, and an acquire that is past its
\* wait returns.  Every caller calls acquire at most once; release, which
\* leaves requestsInWindow alone, is not called. ----
NextRPMFair ==
    \/ \E c \in DOMAIN callers : Acquire(c, ModelId, 0)
    \/ \E c \in DOMAIN callers : RpmTimer(c)
    \/ \E c \in DOMAIN callers : AcquireReturn(c)
    \/ \E c \in DOMAIN callers : Elapse(c)
    \/ Tick

RPMFairness ==
    /\ WF_vars(\E c \in DOMAIN callers : Elapse(c))
    /\ WF_vars(\E c \in DOMAIN callers : RpmTimer(c))
    /\ WF_vars(\E c \in DOMAIN callers : AcquireReturn(c))

SpecRPMFair == InitRPM /\ [][NextRPMFair]_vars /\ RPMFairness

\* ---- a resource under the tpm strategy ----
InitTPM == LimiterInit("tpm", NumTpmCallers)

NextTPM ==
    \/ \E c \in DOMAIN callers : \E cost \in 0..MaxCost : Acquire(c, ModelId, cost)
    \/ \E c \in DOMAIN callers : TpmTimer(c)
    \/ \E c \in DOMAIN callers : AcquireReturn(c)
    \/ \E c \in DOMAIN callers : Release(c)
    \/ Tick

SpecTPM == InitTPM /\ [][NextTPM]_vars

\* ---- a resource under the tpm strategy, one caller at a time: an acquire
\* begins only when no other acquire is between its call and its return ----
InAcquire(c) == callers[c].pc \in {"tpmWait", "returning"}

SequentialAcquire(c, cost) ==
    /\ \A d \in DOMAIN callers : ~InAcquire(d)
    /\ Acquire(c, ModelId, cost)

NextTPMSequential ==
    \/ \E c \in DOMAIN callers : \E cost \in 0..MaxCost : SequentialAcquire(c, cost)
    \/ \E c \in DOMAIN callers : TpmTimer(c)
    \/ \E c \in DOMAIN callers : AcquireReturn(c)
    \/ \E c \in DOMAIN callers : Release(c)
    \/ Tick

SpecTPMSequential == InitTPM /\ [][NextTPMSequential]_vars

\* ---- a resource under the tpm strategy with a limit of 60 tokens per
\* minute (one token per second), one caller at a time ----
SampleLimit == 60

InitTPMSample ==
    /\ now = 0
    /\ rateLimit = (ModelId :> [type |-> "tpm", value |-> SampleLimit])
    /\ states = <<>>
    /\ waitQueue = <<>>
    /\ callers = [c \in 1..NumTpmCallers |-> InitCaller]
    /\ RunnerIdle

SpecTPMSample == InitTPMSample /\ [][NextTPMSequential]_vars

\* ---- a resource under the tpm strategy with a limit that does not divide
\* the window (waitTime has a fractional part), one caller at a time, and
\* timers that fire no earlier than the waitTime that was asked for ----
OddLimit == 7

\* The time since c was suspended covers waitTime = needed / refillRate
\* (with one caller at a time, lastRefill is the instant of the suspension
\* and tokens is what the bucket held then)
NotEarly(c) ==
    /\ callers[c].pc = "tpmWait"
    /\ LET st == states[callers[c].id]
       IN  callers[c].limit * (now - st.lastRefill)
               >= callers[c].cost * WindowSize - st.tokens

InitTPMPunctual ==
    /\ now = 0
    /\ rateLimit = (ModelId :> [type |-> "tpm", value |-> OddLimit])
    /\ states = <<>>
    /\ waitQueue = <<>>
    /\ callers = [c \in 1..NumTpmCallers |-> InitCaller]
    /\ RunnerIdle

NextTPMPunctual ==
    \/ \E c \in DOMAIN callers : \E cost \in (0..MaxCost) \cup {OddLimit} :
           SequentialAcquire(c, cost)
    \/ \E c \in DOMAIN callers : Elapse(c)
    \/ \E c \in DOMAIN callers : NotEarly(c) /\ TpmTimer(c)
    \/ \E c \in DOMAIN callers : AcquireReturn(c)
    \/ \E c \in DOMAIN callers : Release(c)
    \/ Tick

SpecTPMPunctual == InitTPMPunctual /\ [][NextTPMPunctual]_vars

\* ---- the "Search PDF" orchestration: the worker count is derived from
\* the rateLimit of the active model configuration and handed to the runner ----
OrchestratorDefault == 5
WorkerCap == 10
TpmWorkers == 10
SearchMaxRetries == 3

\* Faulty variant of concurrency: the rpm value is capped but not floored
concurrencyUnfloored(rl) ==
    IF rl.type = "concurrency" THEN rl.value
    ELSE IF rl.type = "rpm" THEN Min(WorkerCap, rl.value)
    ELSE IF rl.type = "tpm" THEN TpmWorkers
    ELSE OrchestratorDefault

\* let concurrency = 5; if (type === 'concurrency') ... else if 'rpm' ... else if 'tpm' ...
concurrency(rl) ==
    IF rl.type = "concurrency" THEN rl.value
    ELSE IF rl.type = "rpm" THEN Max(1, Min(WorkerCap, rl.value))
    ELSE IF rl.type = "tpm" THEN TpmWorkers
    ELSE OrchestratorDefault

\* The same derivation in processParentItemsInBatches
maxConcurrent(rl) ==
    IF rl.type = "concurrency" THEN rl.value
    ELSE IF rl.type = "rpm" THEN Max(1, Min(WorkerCap, rl.value))
    ELSE IF rl.type = "tpm" THEN TpmWorkers
    ELSE OrchestratorDefault

\* The rateLimit of the active configuration: none, or a type with a value
PolicyConfigs ==
    {[type |-> "none", value |-> 0]}
        \cup [type : {"concurrency", "rpm", "tpm"}, value : 0..MaxPolicyValue]

\* The orchestrator computes concurrency and calls runConcurrentTasks with
\* maxRetries 3; the execution function resolves
SearchPdf ==
    /\ mainPc = "idle"
    /\ \E n \in 1..MaxTasks :
          /\ cfg' = [n |-> n, concurrency |-> concurrency(rateLimit[ModelId]),
                     maxRetries |-> SearchMaxRetries,
                     executor |-> [i \in 0..(n - 1) |-> "resolves"],
                     onProgress |-> TRUE]
          /\ stats' = [stats EXCEPT !.total = n]
          /\ t' = [i \in 0..(n - 1) |-> InitTask]
    /\ mainPc' = "launching"
    /\ UNCHANGED <<launched, queueIndex, results, returned, workersDone, progress>>
    /\ UNCHANGED limiterVars

InitOrchestrated ==
    /\ now = 0
    /\ \E rl \in PolicyConfigs : rateLimit = (ModelId :> rl)
    /\ states = <<>>
    /\ waitQueue = <<>>
    /\ callers = <<>>
    /\ RunnerIdle

NextOrchestrated ==
    \/ SearchPdf
    \/ Launch
    \/ AwaitAll
    \/ \E i \in Indices : ExecResolve(i)
    \/ \E i \in Indices : WorkerResume(i)
    \/ Finish

SpecOrchestrated == InitOrchestrated /\ [][NextOrchestrated]_vars

(***************************************************************************)
(* Claims                                                                  *)
(***************************************************************************)
Terminal(i) == t[i].pc \in {"returned", "recorded"}

CountStatus(rs, status) == Cardinality({k \in 1..Len(rs) : rs[k].status = status})

\* C1: the run returns exactly N outcomes, one for each index 0..N-1, in
\* ascending order of index whatever the order of completion.
C1_ReturnsEveryIndexInOrder ==
    mainPc = "returned" =>
        /\ Len(returned) = cfg.n
        /\ \A k \in 1..Len(returned) : returned[k].index = k - 1

\* The run has returned two outcomes and index 0 completed after index 1.
C1_Witness ==
    /\ mainPc = "returned"
    /\ cfg.n = 2
    /\ t[0].position = 2
    /\ t[1].position = 1

\* C2: when the run returns, succeeded + failed + skipped = total = completed
\* and each of the three counters is the number of returned outcomes with
\* that status.
C2_CountersMatchOutcomes ==
    mainPc = "returned" =>
        /\ stats.succeeded + stats.failed + stats.skipped = stats.total
        /\ stats.total = stats.completed
        /\ stats.total = cfg.n
        /\ stats.succeeded = CountStatus(returned, "success")
        /\ stats.failed = CountStatus(returned, "failed")
        /\ stats.skipped = CountStatus(returned, "skipped")

\* The run has returned a success and a skipped outcome.
C2_Witness ==
    /\ mainPc = "returned"
    /\ stats.succeeded = 1
    /\ stats.skipped = 1

Admitted == {c \in DOMAIN callers : callers[c].pc = "admitted"}
Limit == rateLimit[ModelId].value

\* C3: under the concurrency strategy the callers admitted and not yet
\* released never exceed the limit, and neither does activeRequests.
C3_AtMostLimitAdmitted ==
    /\ Cardinality(Admitted) <= Limit
    /\ \A id \in DOMAIN states : states[id].activeRequests <= Limit

Called == {c \in DOMAIN callers : callers[c].pc # "idle"}

\* With no release so far, min(k, L) of the k callers are admitted and the
\* other k - min(k, L) are parked in the queue.
C4_BeforeAnyRelease ==
    (\A c \in DOMAIN callers : callers[c].pc \in {"idle", "queued", "admitted"}) =>
        /\ Cardinality(Admitted) = Min(Cardinality(Called), Limit)
        /\ Len(QueueOf(ModelId)) = Cardinality(Called) - Min(Cardinality(Called), Limit)

\* A caller that parks is appended at the tail; a release with a non-empty
\* queue wakes the head of the queue and nobody else.
C4_OneWaiterPerRelease ==
    \A c \in DOMAIN callers :
        /\ (callers[c].pc = "idle" /\ callers'[c].pc = "queued") =>
               QueueOf(ModelId)' = Append(QueueOf(ModelId), c)
        /\ (callers[c].pc = "admitted" /\ callers'[c].pc = "done"
                /\ QueueOf(ModelId) # <<>>) =>
               /\ callers'[Head(QueueOf(ModelId))].pc = "woken"
               /\ QueueOf(ModelId)' = Tail(QueueOf(ModelId))
               /\ \A d \in DOMAIN callers \ {c, Head(QueueOf(ModelId))} :
                      callers'[d] = callers[d]

\* C4: concurrency strategy with limit L: of k > L acquire calls with no
\* release exactly L are admitted and k - L are pending; each later release
\* admits exactly one pending waiter, the one that has waited longest.
C4_FifoAdmission == [](C4_BeforeAnyRelease) /\ [][C4_OneWaiterPerRelease]_vars

\* Limit 2, five acquire calls, then one release: the first waiter has been
\* woken and admitted, two are still pending.
C4_Witness ==
    /\ Limit = 2
    /\ Cardinality(Called) = 5
    /\ Cardinality({c \in DOMAIN callers : callers[c].pc = "done"}) = 1
    /\ Cardinality(Admitted) = 2
    /\ Len(QueueOf(ModelId)) = 2

\* C5: when the first attempt of a task rejects with the non-retryable
\* message "invalid input", the task is reported failed with attempts = 1
\* after a single invocation of the execution function.
C5_NonRetryableFailsFast ==
    [][\A i \in Indices :
          (t[i].attempts = 1 /\ ExecReject(i, MsgInvalidInput)) =>
              /\ t'[i].pc = "returned"
              /\ t'[i].status = "failed"
              /\ t'[i].attempts = 1
              /\ t'[i].invocations = 1]_vars

\* Invocations of the execution function of index i started and not settled
InFlight(i) == t[i].orphans + (IF t[i].pc = "awaiting" THEN 1 ELSE 0)

\* C6: for every index at most one invocation of the execution function is
\* in flight, counting those whose attempt the timer already ended.
C6_OneInvocationInFlight == \A i \in Indices : InFlight(i) <= 1

\* C7: the tpm bucket stays within 0 <= tokens <= limit.
C7_TokensWithinBucket ==
    \A id \in DOMAIN states :
        /\ states[id].tokens >= 0
        /\ states[id].tokens <= Limit * WindowSize

\* Callers admitted in the window of 60000 ms that ends with c's admission
InWindow(c) ==
    {d \in DOMAIN callers : /\ callers[d].admittedAt >= 0
                            /\ callers[d].admittedAt > callers[c].admittedAt - WindowSize
                            /\ callers[d].admittedAt <= callers[c].admittedAt}

\* C8: under the rpm strategy with limit R at most R calls are admitted in
\* any trailing window of 60000 ms, so the call after R admissions waits
\* until 60000 ms after the first of them.
C8_AtMostLimitPerWindow ==
    \A c \in DOMAIN callers :
        callers[c].admittedAt >= 0 => Cardinality(InWindow(c)) <= Limit

\* With limit 2, two calls were admitted at time 0 and a third one, parked
\* on the timer until the first had aged out, is admitted at 60000.
C8_Witness ==
    /\ Limit = 2
    /\ Cardinality({d \in DOMAIN callers : callers[d].admittedAt = 0}) = 2
    /\ \E c \in DOMAIN callers : /\ callers[c].due = WindowSize
                                 /\ callers[c].admittedAt = WindowSize

RECURSIVE SumCost(_)
SumCost(cs) == IF cs = {} THEN 0
               ELSE LET c == CHOOSE x \in cs : TRUE
                    IN  callers[c].cost + SumCost(cs \ {c})

\* C9: under the tpm strategy with limit C the costs admitted in any
\* trailing window of 60000 ms sum to at most C.
C9_CostPerWindowWithinLimit ==
    \A c \in DOMAIN callers :
        callers[c].admittedAt >= 0 => SumCost(InWindow(c)) <= Limit

\* C10: the execution function of every task is invoked at least once and at
\* most maxRetries times, and attempts in its outcome is that number.
C10_AttemptsWithinBounds ==
    /\ \A i \in Indices :
        /\ t[i].invocations <= cfg.maxRetries
        /\ Terminal(i) => /\ t[i].invocations >= 1
                          /\ t[i].attempts = t[i].invocations
    /\ \A k \in 1..Len(results) :
        results[k].attempts = t[results[k].index].invocations

\* Both outcomes recorded: one after a single invocation, one after maxRetries = 2.
C10_Witness ==
    /\ mainPc = "returned"
    /\ cfg.maxRetries = 2
    /\ \E k \in 1..Len(returned) : returned[k].attempts = 1
    /\ \E k \in 1..Len(returned) : returned[k].attempts = 2

Econnreset == {i \in Indices : cfg.executor[i] = "rejectsEconnreset"}

\* The outcome of a task whose every attempt rejected with "ECONNRESET"
C11_FailedAfterMaxRetries ==
    \A i \in Econnreset :
        /\ t[i].attempts <= cfg.maxRetries
        /\ Terminal(i) => /\ t[i].status = "failed"
                          /\ t[i].attempts = cfg.maxRetries
                          /\ t[i].invocations = cfg.maxRetries
        /\ \A k \in 1..Len(results) :
               results[k].index = i => /\ results[k].status = "failed"
                                       /\ results[k].attempts = cfg.maxRetries

\* Every attempt after the first starts when a backoff sleep ends, and a
\* rejection before the last attempt starts a backoff sleep.
C11_SleepBetweenAttempts ==
    \A i \in Econnreset :
        /\ (t[i].attempts >= 1 /\ t'[i].attempts # t[i].attempts) =>
               /\ t[i].pc = "sleeping"
               /\ t'[i].attempts = t[i].attempts + 1
        /\ (t[i].pc = "awaiting" /\ t'[i].pc # "awaiting") =>
               IF t[i].attempts < cfg.maxRetries
               THEN t'[i].pc = "sleeping" /\ t'[i].backoffDelay > 0
               ELSE t'[i].pc = "returned"

\* C11: a task whose execution function always rejects with "ECONNRESET" is
\* attempted exactly maxRetries times, with a backoff sleep between every two
\* consecutive attempts, and is then reported failed (not skipped) with
\* attempts = maxRetries.
C11_RetryableExhaustsToFailed ==
    [](C11_FailedAfterMaxRetries) /\ [][C11_SleepBetweenAttempts]_vars

\* With maxRetries = 2 the run returned a failed outcome with two attempts
\* for an always-ECONNRESET task.
C11_Witness ==
    /\ mainPc = "returned"
    /\ cfg.maxRetries = 2
    /\ \E i \in Econnreset : /\ t[i].invocations = 2
                             /\ t[i].lastError = MsgEconnreset
                             /\ returned[i + 1].status = "failed"
                             /\ returned[i + 1].attempts = 2

\* The delays the default base of 2000 ms gives, attempt by attempt
ExpectedDelay(k) ==
    IF k <= 6 THEN <<2000, 4000, 8000, 16000, 30000, 30000>>[k] ELSE 30000

\* A sleeping task failed attempt k < maxRetries and sleeps the k-th delay.
C12_SleepingDelay ==
    \A i \in Indices :
        t[i].pc = "sleeping" =>
            /\ t[i].attempts < cfg.maxRetries
            /\ t[i].backoffDelay = ExpectedDelay(t[i].attempts)
            /\ t[i].backoffDelay =
                   (IF RetryDelayMs * 2^(t[i].attempts - 1) < 30000
                    THEN RetryDelayMs * 2^(t[i].attempts - 1) ELSE 30000)

\* A retryable rejection of attempt k < maxRetries starts that sleep.
C12_RetryableStartsSleep ==
    \A i \in Indices :
        (t[i].attempts < cfg.maxRetries /\ ExecReject(i, MsgEconnreset)) =>
            /\ t'[i].pc = "sleeping"
            /\ t'[i].attempts = t[i].attempts
            /\ t'[i].backoffDelay = ExpectedDelay(t[i].attempts)

\* C12: when attempt k < maxRetries fails with a retryable error, the sleep
\* before attempt k+1 is min(retryDelayMs * 2^(k-1), 30000) ms: 2000, 4000,
\* 8000, 16000, 30000, 30000, ... for the base of 2000.
C12_BackoffSchedule == [](C12_SleepingDelay) /\ [][C12_RetryableStartsSleep]_vars

\* The fifth attempt failed and the task sleeps the capped delay (32000 > 30000).
C12_Witness ==
    \E i \in Indices : /\ t[i].pc = "sleeping"
                        /\ t[i].attempts = 5
                        /\ t[i].backoffDelay = BackoffCapMs

TimedOut(message) == Includes(message, <<"t","i","m","e","d"," ","o","u","t">>)

\* A task that ended without success is skipped exactly if its last error
\* contains "timed out"; a task all of whose executions are still running
\* had every attempt ended by the timer and is skipped.
C13_StatusFromLastError ==
    \A i \in Indices :
        Terminal(i) =>
            /\ t[i].status # "success" =>
                   /\ t[i].status = (IF TimedOut(t[i].lastError) THEN "skipped" ELSE "failed")
                   /\ t[i].orphans = t[i].attempts => t[i].status = "skipped"
            /\ \A k \in 1..Len(results) :
                   results[k].index = i => results[k].status = t[i].status

\* The step that exhausts the retry loop increments one counter and leaves
\* the other alone, by the error of the attempt that just ended.
C13_OneCounterPerExhaustion ==
    \A i \in Indices :
        (t[i].pc # "returned" /\ t'[i].pc = "returned" /\ t'[i].status # "success") =>
            IF TimedOut(t'[i].lastError)
            THEN /\ t'[i].status = "skipped"
                 /\ stats'.skipped = stats.skipped + 1
                 /\ stats'.failed = stats.failed
            ELSE /\ t'[i].status = "failed"
                 /\ stats'.failed = stats.failed + 1
                 /\ stats'.skipped = stats.skipped

\* C13: when the retry loop of a task is exhausted its status is decided by
\* the error of the last attempt only: skipped (skipped incremented, failed
\* unchanged) if the message contains "timed out", otherwise failed (failed
\* incremented, skipped unchanged); a task whose every attempt the timer
\* ended is reported skipped.
C13_SkippedIffTimedOut ==
    [](C13_StatusFromLastError) /\ [][C13_OneCounterPerExhaustion]_vars

\* Both attempts of a task were ended by the timer and the run returned it
\* as skipped, with skipped = 1 and failed = 0.
C13_Witness ==
    /\ mainPc = "returned"
    /\ cfg.maxRetries = 2
    /\ stats.skipped = 1
    /\ stats.failed = 0
    /\ \E i \in Indices : /\ t[i].attempts = 2
                          /\ t[i].orphans = 2
                          /\ returned[i + 1].status = "skipped"

Resolving == {i \in Indices : cfg.executor[i] = "resolves"}

\* The outcome of a task whose execution function always resolves
C14_SuccessAfterOneAttempt ==
    \A i \in Resolving :
        /\ t[i].attempts <= 1
        /\ Terminal(i) => /\ t[i].status = "success"
                          /\ t[i].attempts = 1
                          /\ t[i].invocations = 1
        /\ \A k \in 1..Len(results) :
               results[k].index = i => /\ results[k].status = "success"
                                       /\ results[k].attempts = 1

\* Of the steps of such a task only the resolution of its attempt touches
\* the counters succeeded, failed, skipped, retrying: it adds one to succeeded.
C14_CountsOneSuccess ==
    \A i \in Resolving :
        t'[i] # t[i] =>
            /\ stats'.failed = stats.failed
            /\ stats'.skipped = stats.skipped
            /\ stats'.retrying = stats.retrying
            /\ stats'.succeeded =
                   (IF t[i].pc = "awaiting" THEN stats.succeeded + 1 ELSE stats.succeeded)
            /\ t[i].pc = "awaiting" => t'[i].pc = "returned"

\* C14: a task whose execution function always resolves before the timer is
\* reported success with attempts = 1 and increments succeeded exactly once,
\* leaving failed, skipped and retrying unchanged.
C14_AlwaysResolvesSucceeds ==
    [](C14_SuccessAfterOneAttempt) /\ [][C14_CountsOneSuccess]_vars

\* The run returned the success of an always-resolving task next to the
\* failure of another task.
C14_Witness ==
    /\ mainPc = "returned"
    /\ cfg.n = 2
    /\ stats.succeeded = 1
    /\ stats.failed = 1
    /\ \E i \in Resolving : /\ returned[i + 1].status = "success"
                            /\ returned[i + 1].attempts = 1

\* C15: the number of workers launched is min(configured concurrency, task
\* count), and in every state inProgress is at most that number.
C15_InProgressWithinWorkers ==
    LET w == IF cfg.concurrency < cfg.n THEN cfg.concurrency ELSE cfg.n
    IN  /\ launched <= w
        /\ mainPc # "launching" => launched = w
        /\ workersDone <= w
        /\ stats.inProgress >= 0
        /\ stats.inProgress <= w
        /\ stats.inProgress = Cardinality({i \in Indices :
                                   t[i].pc \in {"awaiting", "sleeping", "returned"}})

\* Concurrency 2 and a single task: the launch loop is over, one worker was
\* launched and its task is in progress.
C15_Witness ==
    /\ cfg.concurrency = 2
    /\ cfg.n = 1
    /\ mainPc = "awaiting"
    /\ launched = 1
    /\ stats.inProgress = 1

\* C16: whatever each attempt does (it resolves, rejects with an Error of any
\* message or with a value that is no Error, or is ended by the timer), no
\* processTask call rejects, so the run does not reject: every task stays on
\* the path to an outcome and the run returns one outcome per task.
C16_RunNeverRejects ==
    /\ \A i \in Indices :
           /\ t[i].pc \in {"pending", "awaiting", "sleeping", "returned", "recorded"}
           /\ Terminal(i) => t[i].status \in {"success", "failed", "skipped"}
    /\ mainPc \in {"launching", "awaiting", "returned"}
    /\ mainPc = "returned" =>
           /\ Len(returned) = cfg.n
           /\ \A k \in 1..Len(returned) :
                  returned[k].status \in {"success", "failed", "skipped"}

\* The run returned the failed outcome of a task whose first attempt was
\* ended by the timer and whose second attempt rejected with undefined.
C16_Witness ==
    /\ mainPc = "returned"
    /\ \E i \in Indices : /\ t[i].orphans = 1
                          /\ t[i].attempts = 2
                          /\ t[i].lastError = MsgUndefined
                          /\ returned[i + 1].status = "failed"

\* C17: under fair scheduling of timers and workers every task eventually
\* reaches the terminal state Succeeded, Failed or Skipped and the run
\* eventually returns, even if no execution function ever settles.
C17_RunEventuallyReturns ==
    <>(/\ mainPc = "returned"
       /\ Len(returned) = cfg.n
       /\ \A i \in Indices : /\ t[i].pc = "recorded"
                             /\ t[i].status \in {"success", "failed", "skipped"})

\* The run returned although neither execution function ever settled:
\* every attempt of the two tasks was ended by the timer.
C17_Witness ==
    /\ mainPc = "returned"
    /\ cfg.n = 2
    /\ cfg.maxRetries = 2
    /\ \A i \in Indices : t[i].orphans = 2 /\ t[i].invocations = 2

\* An attempt of task i has ended
AttemptEnded(i) == t[i].pc \notin {"pending", "awaiting"} \/ t[i].attempts > 1

\* C18: with at least as many workers as tasks, the first attempt of every
\* task has started before any attempt of any task ends, hence before any
\* task completes: no first attempt waits for a worker to be freed.
C18_AllStartBeforeAnyCompletes ==
    cfg.concurrency >= cfg.n =>
        /\ (\E i \in Indices : AttemptEnded(i)) =>
               \A j \in Indices : t[j].invocations >= 1
        /\ mainPc # "launching" => \A j \in Indices : t[j].claims = 1

\* Two workers, two tasks: one task has completed while the other is still
\* in its first attempt.
C18_Witness ==
    /\ cfg.concurrency = 2
    /\ cfg.n = 2
    /\ \E i \in Indices : t[i].pc = "recorded"
    /\ \E j \in Indices : t[j].pc = "awaiting" /\ t[j].attempts = 1

\* An acquire that arrives is admitted at once only if nobody is waiting in
\* the queue, a release takes the head of the queue, and of the waiters that
\* were taken from the queue the one taken first is admitted first.
C19_NoOvertaking ==
    \A c \in DOMAIN callers :
        /\ (callers[c].pc = "idle" /\ callers'[c].pc = "admitted") =>
               QueueOf(ModelId) = <<>>
        /\ (callers[c].pc = "queued" /\ callers'[c].pc = "woken") =>
               c = Head(QueueOf(ModelId))
        /\ (callers[c].pc = "woken" /\ callers'[c].pc = "admitted") =>
               \A d \in DOMAIN callers :
                   callers[d].pc = "woken" => callers[c].job <= callers[d].job

\* C19: under the concurrency strategy admission follows arrival order: a
\* caller that arrives later is never admitted while a caller that arrived
\* earlier still waits in the queue, and the waiters are admitted in the
\* order in which they were queued.
C19_AdmissionInArrivalOrder == [][C19_NoOvertaking]_vars

\* With no release so far the first five callers are admitted and the
\* others are parked in the queue.
C20_FiveAdmittedAtOnce ==
    (\A c \in DOMAIN callers : callers[c].pc \in {"idle", "queued", "admitted"}) =>
        /\ Cardinality(Admitted) = (IF Cardinality(Called) < 5 THEN Cardinality(Called) ELSE 5)
        /\ Len(QueueOf(ModelId)) = (IF Cardinality(Called) < 5 THEN 0 ELSE Cardinality(Called) - 5)
        /\ ModelId \in DOMAIN states => states[ModelId].activeRequests = Cardinality(Admitted)

\* A caller is parked only when five requests are active, and a parked
\* caller leaves the queue only in the step of a release.
C20_ParkedUntilRelease ==
    \A c \in DOMAIN callers :
        /\ (callers[c].pc = "idle" /\ callers'[c].pc # "idle") =>
               callers'[c].pc = (IF GetState(states, ModelId)[ModelId].activeRequests < 5
                                 THEN "admitted" ELSE "queued")
        /\ (callers[c].pc = "queued" /\ callers'[c].pc # "queued") =>
               /\ callers'[c].pc = "woken"
               /\ \E d \in DOMAIN callers :
                      callers[d].pc = "admitted" /\ callers'[d].pc = "done"

\* C20: a resource without a rate-limit policy is gated by the concurrency
\* strategy with limit 5: the first five concurrent acquire calls are
\* admitted at once and the sixth is suspended until a release.
C20_DefaultConcurrencyFive == [](C20_FiveAdmittedAtOnce) /\ [][C20_ParkedUntilRelease]_vars

\* Six acquire calls and no release: five admitted, the sixth parked.
C20_Witness ==
    /\ rateLimit[ModelId].type = "none"
    /\ Cardinality(Called) = 6
    /\ Cardinality(Admitted) = 5
    /\ Len(QueueOf(ModelId)) = 1
    /\ \A c \in DOMAIN callers : callers[c].pc \in {"queued", "admitted"}

\* The counter of every resource the limiter has a state for is at least 0.
C21_NonNegative ==
    \A id \in DOMAIN states : states[id].activeRequests >= 0

\* A release, with or without a matching acquire, of a resource whose
\* counter is 0 (or that has no state yet) leaves the counter at 0.
C21_ReleaseAtZeroStaysZero ==
    \A id \in {ModelId, OtherId} :
        (/\ GetState(states, id)[id].activeRequests = 0
         /\ \/ StrayRelease(id)
            \/ \E c \in DOMAIN callers : callers[c].id = id /\ Release(c))
        => (id \in DOMAIN states' /\ states'[id].activeRequests = 0)

\* C21: activeRequests is at least 0 for every resource after every sequence
\* of acquire and release calls, releases without a matching acquire and
\* releases of never-seen resources included; a release at 0 leaves 0.
C21_ActiveRequestsNeverNegative ==
    [](C21_NonNegative) /\ [][C21_ReleaseAtZeroStaysZero]_vars

\* A never-seen resource was released, and the counter of the other one is
\* at 0 although a caller still holds an admission: a release without a
\* matching acquire took it, and that caller's own release finds 0.
C21_Witness ==
    /\ OtherId \in DOMAIN states
    /\ states[OtherId].activeRequests = 0
    /\ ModelId \in DOMAIN states
    /\ states[ModelId].activeRequests = 0
    /\ \E c \in DOMAIN callers : callers[c].pc = "admitted"
    /\ \E c \in DOMAIN callers : callers[c].pc = "done"

\* A step in which a caller that holds an admission releases the resource
\* while the resource's strategy is rpm or tpm
ReleaseUnderRateStrategy ==
    /\ rateLimit[ModelId].type \in {"rpm", "tpm"}
    /\ \E c \in DOMAIN callers : callers[c].pc = "admitted" /\ callers'[c].pc = "done"

\* Such a release decrements activeRequests, floored at 0.
C22_Decrements ==
    ReleaseUnderRateStrategy =>
        states'[ModelId].activeRequests = Max(0, states[ModelId].activeRequests - 1)

RpmPass(c) ==
    /\ callers[c].pc \in {"idle", "rpmWait"}
    /\ callers'[c] # callers[c]

Ascending(window) ==
    \A i, j \in DOMAIN window : i < j => window[i] <= window[j]

\* The window that the pass of caller c compared with the limit: what the
\* pass left in the state, less the timestamp it pushed on admission
ComparedWindow(c) ==
    LET window == states'[ModelId].requestsInWindow
    IN  IF callers'[c].pc = "rpmWait" THEN window
        ELSE SubSeq(window, 1, Len(window) - 1)

\* C23: whenever waitForRPM compares the request count with the limit or
\* reads the oldest timestamp, requestsInWindow holds only timestamps
\* strictly newer than now - 60000, in ascending order, so that index 0 is
\* the oldest one.
C23_WindowPrunedAndAscending ==
    [][\A c \in DOMAIN callers : RpmPass(c) =>
          LET compared == ComparedWindow(c) IN
          /\ \A i \in DOMAIN compared : compared[i] > now - WindowSize
          /\ Ascending(compared)
          /\ Ascending(states'[ModelId].requestsInWindow)
          /\ IF callers'[c].pc = "rpmWait"
             THEN /\ Len(compared) >= callers'[c].limit
                  /\ \A i \in DOMAIN compared : compared[1] <= compared[i]
                  /\ callers'[c].due = compared[1] + WindowSize
             ELSE Len(compared) < callers'[c].limit]_vars

\* A timestamp of time 0 was pruned when it was exactly one window old, the
\* call of that moment took its place, and the next call read that entry as
\* the oldest one and waits for it to age out.
C23_Witness ==
    /\ ModelId \in DOMAIN states
    /\ states[ModelId].requestsInWindow = <<WindowSize>>
    /\ \E c \in DOMAIN callers : callers[c].admittedAt = 0
    /\ \E c \in DOMAIN callers : /\ callers[c].pc = "rpmWait"
                                 /\ callers[c].due = 2 * WindowSize

\* Caller c evaluates the bucket in this step: its call of acquire under tpm
\* or the continuation of waitForTPM after its timer
TpmPass(c) ==
    /\ rateLimit[ModelId].type = "tpm"
    /\ callers[c].pc \in {"idle", "tpmWait"}
    /\ callers'[c] # callers[c]

\* The bucket as the pass finds it (tokens in units of 1/60000 token)
BucketBefore == GetState(states, ModelId)[ModelId]

\* The bucket after the pass, its debit undone
TokensBeforeDebit(c) ==
    states'[ModelId].tokens
        + (IF callers'[c].pc = "returning" THEN callers'[c].cost * WindowSize ELSE 0)

\* Every evaluation sets tokens to min(limit, tokens + elapsed * limit / 60000)
\* before any debit, and lastRefill to the current time.
C24_RefillFormula ==
    \A c \in DOMAIN callers : TpmPass(c) =>
        LET limit == callers'[c].limit
            elapsed == now - BucketBefore.lastRefill
        IN  /\ TokensBeforeDebit(c) =
                   Min(limit * WindowSize, BucketBefore.tokens + elapsed * limit)
            /\ states'[ModelId].lastRefill = now

\* A call of cost 0 made 30000 ms after the previous evaluation, at limit 60
\* and with room for 30 tokens under the cap, adds exactly 30 tokens.
C24_ThirtyTokensInHalfAMinute ==
    \A c \in DOMAIN callers :
        (/\ TpmPass(c)
         /\ callers[c].pc = "idle"
         /\ callers'[c].cost = 0
         /\ callers'[c].limit = 60
         /\ now - BucketBefore.lastRefill = 30000
         /\ BucketBefore.tokens + 30 * WindowSize <= 60 * WindowSize)
        => states'[ModelId].tokens = BucketBefore.tokens + 30 * WindowSize

\* C24: each time the tpm bucket is evaluated, tokens becomes
\* min(limit, tokens + elapsed_ms * limit / 60000) and lastRefill the current
\* time; for calls of cost 0 made one after the other, 30000 ms at limit 60
\* add exactly 30 tokens while the cap is not reached.
C24_Refill == [][C24_RefillFormula /\ C24_ThirtyTokensInHalfAMinute]_vars

\* Two calls of cost 0 at limit 60, at time 0 and at 30000: the bucket, empty
\* at first, holds 30 tokens.
C24_Witness ==
    /\ rateLimit[ModelId].value = 60
    /\ ModelId \in DOMAIN states
    /\ states[ModelId].tokens = 30 * WindowSize
    /\ states[ModelId].lastRefill = 30000
    /\ \A c \in DOMAIN callers : callers[c].pc = "admitted" /\ callers[c].cost = 0
    /\ \E c \in DOMAIN callers : callers[c].admittedAt = 0
    /\ \E c \in DOMAIN callers : callers[c].admittedAt = 30000

\* An attempt of index i ends in failure in this step: the catch block of
\* processTask runs and notifies onTaskError
AttemptFails(i) ==
    \/ \E msg \in ExecMessages : ExecReject(i, msg)
    \/ TimerFire(i)

\* The willRetry that the catch block passes to onTaskError in this step
NotifiedWillRetry(i) ==
    t[i].attempts < cfg.maxRetries /\ RetryableTable[t'[i].lastError]

\* C25: whenever onTaskError is notified with willRetry = false the retry
\* loop of that task ends, with no further attempt; and every attempt after
\* the first one follows a notification with willRetry = true (it starts
\* when the backoff sleep of that notification is over).
C25_NoAttemptAfterFinalNotice ==
    [][\A i \in Indices :
          /\ (AttemptFails(i) /\ ~NotifiedWillRetry(i)) =>
                 /\ t'[i].pc # "awaiting"
                 /\ t'[i].invocations = t[i].invocations
          /\ (t[i].attempts >= 1 /\ t'[i].invocations > t[i].invocations) =>
                 t[i].pc = "sleeping"]_vars

\* C26: an attempt ended by the runner's timer, with attempts left, is a
\* retryable failure: retrying is incremented, the task is notified with
\* willRetry = true and sleeps the backoff delay before its next attempt.
C26_TimerFailureIsRetried ==
    [][\A i \in Indices :
          (TimerFire(i) /\ t[i].attempts < cfg.maxRetries) =>
              /\ NotifiedWillRetry(i)
              /\ stats'.retrying = stats.retrying + 1
              /\ t'[i].pc = "sleeping"
              /\ t'[i].backoffDelay = BackoffDelay(t[i].attempts)
              /\ t'[i].invocations = t[i].invocations]_vars

\* The attempt of index i that is awaited ends in this step
AttemptEnds(i) ==
    /\ t[i].pc = "awaiting"
    /\ t'[i].pc # "awaiting" \/ t'[i].attempts # t[i].attempts

\* A timer is pending exactly while an attempt is awaited, and only attempts
\* that are over have an execution that outlived them.
C27_TimerOnlyWhileAwaiting ==
    \A i \in Indices :
        /\ t[i].timer <=> t[i].pc = "awaiting"
        /\ t[i].orphans <= t[i].attempts - (IF t[i].pc = "awaiting" THEN 1 ELSE 0)

\* An attempt ends either by its timer, as a failure with the timeout
\* message whose execution is left running, or by its execution, with that
\* execution's result and no timeout failure; when a left-over execution
\* settles, nothing but the count of left-over executions changes.
C27_OneSettlementCounts ==
    \A i \in Indices :
        /\ AttemptEnds(i) =>
               IF t'[i].orphans = t[i].orphans + 1
               THEN /\ t'[i].lastError = TimeoutMessage(i)
                    /\ t'[i].status # "success"
               ELSE /\ t'[i].orphans = t[i].orphans
                    /\ t'[i].status = "success" \/ t'[i].lastError # TimeoutMessage(i)
        /\ t'[i].orphans < t[i].orphans =>
               /\ t' = [t EXCEPT ![i].orphans = @ - 1]
               /\ UNCHANGED <<stats, results, returned, mainPc, queueIndex, workersDone>>

\* C27: each attempt settles exactly once. If the timer fires first the
\* attempt fails with the timeout message and the later settlement of its
\* execution changes nothing; if the execution settles first the timer is
\* cancelled and produces no timeout failure for that attempt.
C27_AttemptSettlesOnce ==
    [](C27_TimerOnlyWhileAwaiting) /\ [][C27_OneSettlementCounts]_vars

\* The run returned a task as skipped whose attempts were all ended by the
\* timer and whose executions have all settled since, and a task that
\* succeeded on an attempt its execution ended.
C27_Witness ==
    /\ mainPc = "returned"
    /\ \E i \in Indices : /\ returned[i + 1].status = "skipped"
                          /\ t[i].lastError = TimeoutMessage(i)
                          /\ t[i].orphans = 0
    /\ \E i \in Indices : /\ returned[i + 1].status = "success"
                          /\ t[i].timer = FALSE
    /\ stats.succeeded = 1
    /\ stats.skipped = 1

\* The indices below the cursor are the claimed ones, each claimed once; the
\* cursor stays within 0..N; when every worker has left its loop no index
\* is unclaimed.
C28_ClaimedBelowCursor ==
    /\ queueIndex \in 0..cfg.n
    /\ \A i \in Indices : t[i].claims = (IF i < queueIndex THEN 1 ELSE 0)
    /\ (mainPc # "launching" /\ workersDone = workerCount) =>
           \A i \in Indices : t[i].claims = 1

\* The cursor never decreases: a step leaves it or claims the index it
\* points at and advances it by one.
C28_CursorAdvances ==
    \/ queueIndex' = queueIndex /\ \A i \in Indices : t'[i].claims = t[i].claims
    \/ /\ queueIndex' = queueIndex + 1
       /\ \A i \in Indices :
              t'[i].claims = t[i].claims + (IF i = queueIndex THEN 1 ELSE 0)

\* C28: the shared queue cursor only increases; every index is claimed by
\* one worker, once; no index is unclaimed when all workers have finished.
C28_EachIndexClaimedOnce == [](C28_ClaimedBelowCursor) /\ [][C28_CursorAdvances]_vars

\* The single worker of a run of two tasks has left its loop: it claimed
\* index 0, then index 1 after the first task, and every index is claimed.
C28_Witness ==
    /\ cfg.n = 2
    /\ cfg.concurrency = 1
    /\ mainPc = "awaiting"
    /\ workersDone = 1
    /\ queueIndex = 2
    /\ \A i \in Indices : t[i].claims = 1 /\ t[i].pc = "recorded"

\* Tasks whose execution function fails with the retryable "ECONNRESET" only:
\* one that resolves on attempt k has rejected, retryably, on attempts 1..k-1
Flaky == {i \in Indices : cfg.executor[i] = "flaky"}

\* The step in which such a task resolves on an attempt k >= 2 ends it as a
\* success with attempts = k, adds one to succeeded and leaves failed and
\* skipped alone.
C29_ResolveOnAttemptK ==
    \A i \in Flaky :
        (t[i].attempts >= 2 /\ ExecResolve(i)) =>
            /\ t'[i].pc = "returned"
            /\ t'[i].status = "success"
            /\ t'[i].attempts = t[i].attempts
            /\ t'[i].invocations = t[i].attempts
            /\ stats'.succeeded = stats.succeeded + 1
            /\ stats'.failed = stats.failed
            /\ stats'.skipped = stats.skipped

\* The counters count every ended task once, by its status, and a task that
\* succeeded is reported as a success with its number of attempts.
C29_CountedOnce ==
    /\ stats.succeeded = Cardinality({i \in Indices : t[i].status = "success"})
    /\ stats.failed + stats.skipped =
           Cardinality({i \in Indices : t[i].status \in {"failed", "skipped"}})
    /\ \A i \in Flaky :
           /\ t[i].status = "success" => Terminal(i) /\ t[i].attempts \in 1..cfg.maxRetries
           /\ \A k \in 1..Len(results) :
                  (results[k].index = i /\ t[i].status = "success") =>
                      results[k] = [index |-> i, status |-> "success",
                                    attempts |-> t[i].attempts]
           /\ (mainPc = "returned" /\ t[i].status = "success") =>
                  returned[i + 1] = [index |-> i, status |-> "success",
                                     attempts |-> t[i].attempts]

\* C29: a task whose execution function rejects with a retryable error on
\* attempts 1..k-1 and resolves on attempt k, 2 <= k <= maxRetries, is
\* reported as a success with attempts = k and is counted once in succeeded
\* and not in failed or skipped.
C29_SuccessAfterRetries == [](C29_CountedOnce) /\ [][C29_ResolveOnAttemptK]_vars

\* The run returned a task that rejected with "ECONNRESET" on attempt 1 and
\* resolved on attempt 2.
C29_Witness ==
    /\ mainPc = "returned"
    /\ \E i \in Flaky : /\ t[i].lastError = MsgEconnreset
                        /\ returned[i + 1] = [index |-> i, status |-> "success",
                                              attempts |-> 2]
                        /\ stats.succeeded >= 1

\* The tokens of the bucket after the refill that a pass starts with
RefilledTokens(limit) ==
    Min(limit * WindowSize,
        BucketBefore.tokens + (now - BucketBefore.lastRefill) * limit)

\* A call of acquire under tpm: with enough tokens after the refill the cost
\* is debited and the call goes on without a timer; otherwise the bucket is
\* left refilled and a timer of (cost - tokens) * 60000 / limit ms is set.
C30_CallDebitsOrWaits ==
    \A c \in DOMAIN callers :
        (TpmPass(c) /\ callers[c].pc = "idle") =>
            LET limit == callers'[c].limit
                cost == callers'[c].cost
                tokens == RefilledTokens(limit)
            IN  IF tokens >= cost * WindowSize
                THEN /\ callers'[c].pc = "returning"
                     /\ states'[ModelId].tokens = tokens - cost * WindowSize
                ELSE /\ callers'[c].pc = "tpmWait"
                     /\ callers'[c].due = now + ((cost * WindowSize - tokens) \div limit)
                     /\ states'[ModelId].tokens = tokens

\* After its timer the call refills from the time that has passed since the
\* last refill, debits the cost whatever the tokens are, and goes on: it
\* never waits a second time.
C30_AfterWaitDebitsUnchecked ==
    \A c \in DOMAIN callers :
        (TpmPass(c) /\ callers[c].pc = "tpmWait") =>
            /\ now >= callers[c].due
            /\ callers'[c].pc = "returning"
            /\ states'[ModelId].tokens =
                   RefilledTokens(callers[c].limit) - callers[c].cost * WindowSize
            /\ states'[ModelId].lastRefill = now

\* C30: a tpm acquire that finds tokens >= cost after the refill debits and
\* is admitted without suspending; one that finds tokens < cost suspends
\* once, for (cost - tokens) * 60000 / limit ms, then refills from the newly
\* elapsed time and debits without testing the tokens again.
C30_TpmAdmission == [][C30_CallDebitsOrWaits /\ C30_AfterWaitDebitsUnchecked]_vars

\* A call has waited and gone on although the refill after its wait did not
\* cover its cost: the bucket is overdrawn.
C30_Witness ==
    /\ ModelId \in DOMAIN states
    /\ states[ModelId].tokens < 0
    /\ \E c \in DOMAIN callers : /\ callers[c].pc \in {"returning", "admitted"}
                                 /\ callers[c].due > 0
                                 /\ callers[c].cost > 0

\* The attempts of index i that have ended in failure
FailedAttempts(i) ==
    t[i].attempts - (IF t[i].pc = "awaiting" THEN 1 ELSE 0)
                  - (IF t[i].status = "success" THEN 1 ELSE 0)

\* C31: for every task onTaskStart is invoked exactly once, no later than
\* the first invocation of the execution function; onTaskComplete exactly
\* once if and only if the outcome is success; onTaskSkip exactly once if and
\* only if the outcome is skipped; onTaskError once per failed attempt.
C31_ObserverCalls ==
    \A i \in Indices :
        /\ t[i].calls.onTaskStart = (IF t[i].invocations >= 1 THEN 1 ELSE 0)
        /\ t[i].calls.onTaskComplete = (IF t[i].status = "success" THEN 1 ELSE 0)
        /\ t[i].calls.onTaskSkip = (IF t[i].status = "skipped" THEN 1 ELSE 0)
        /\ t[i].calls.onTaskError = FailedAttempts(i)
        /\ Terminal(i) => t[i].status \in {"success", "failed", "skipped"}

\* The run returned a task that was skipped after two attempts the timer
\* ended, with one start, two error and one skip notification, and a task
\* that succeeded, with one start and one complete notification.
C31_Witness ==
    /\ mainPc = "returned"
    /\ \E i \in Indices :
           /\ returned[i + 1].status = "skipped"
           /\ t[i].calls = [onTaskStart |-> 1, onTaskComplete |-> 0,
                            onTaskError |-> 2, onTaskSkip |-> 1]
    /\ \E i \in Indices :
           /\ returned[i + 1].status = "success"
           /\ t[i].calls = [onTaskStart |-> 1, onTaskComplete |-> 1,
                            onTaskError |-> 0, onTaskSkip |-> 0]

\* The rateLimit the orchestrator read
ActivePolicy == rateLimit[ModelId]

\* C32: the worker count the orchestrator passes to the runner is the value
\* of a concurrency policy, the value of an rpm policy clamped into 1..10,
\* 10 for a tpm policy and 5 without a policy; so for rpm, tpm and no policy
\* it is at least 1 and at most 10.
C32_WorkerCountFromPolicy ==
    mainPc # "idle" =>
        /\ ActivePolicy.type = "concurrency" => cfg.concurrency = ActivePolicy.value
        /\ ActivePolicy.type = "rpm" =>
               cfg.concurrency = (IF ActivePolicy.value < 1 THEN 1
                                  ELSE IF ActivePolicy.value > 10 THEN 10
                                  ELSE ActivePolicy.value)
        /\ ActivePolicy.type = "tpm" => cfg.concurrency = 10
        /\ ActivePolicy.type = "none" => cfg.concurrency = 5
        /\ ActivePolicy.type # "concurrency" => cfg.concurrency \in 1..10
        /\ maxConcurrent(ActivePolicy) = cfg.concurrency

\* A run that was given one worker for an rpm policy of 0 has returned.
C32_Witness ==
    /\ ActivePolicy = [type |-> "rpm", value |-> 0]
    /\ cfg.concurrency = 1
    /\ mainPc = "returned"
    /\ Len(returned) = cfg.n

Sleeping == {i \in Indices : t[i].pc = "sleeping"}

\* C33: retrying is the number of tasks sleeping in a retry backoff, hence
\* 0 <= retrying <= inProgress, and it is 0 when the run returns.
C33_RetryingCountsSleepers ==
    /\ stats.retrying = Cardinality(Sleeping)
    /\ stats.retrying >= 0
    /\ stats.retrying <= stats.inProgress
    /\ mainPc = "returned" => stats.retrying = 0

\* The number of tasks claimed when the k-th snapshot of the latest
\* delivering step was taken: every snapshot after the k-th in that step
\* follows one queueIndex++
ClaimedAt(k) == queueIndex - (Len(progress) - k)

Settled(snapshot) == snapshot.succeeded + snapshot.failed + snapshot.skipped

\* C34: every snapshot handed to the progress observer has
\* completed + inProgress equal to the number of tasks claimed so far, which
\* is at most total, and completed <= succeeded + failed + skipped
\* <= completed + inProgress.
C34_SnapshotCounts ==
    \A k \in 1..Len(progress) :
        /\ progress[k].completed + progress[k].inProgress = ClaimedAt(k)
        /\ ClaimedAt(k) <= progress[k].total
        /\ progress[k].completed <= Settled(progress[k])
        /\ Settled(progress[k]) <= progress[k].completed + progress[k].inProgress

\* A worker recorded one task while the other task has settled but is not
\* recorded yet: the snapshot counts two settled tasks, one of them completed
C34_Witness ==
    /\ Len(progress) = 1
    /\ progress[1].completed = 1
    /\ progress[1].inProgress = 1
    /\ Settled(progress[1]) = 2

LastSnapshot == progress[Len(progress)]

\* C39: when a run of N >= 1 tasks with at least one worker has returned,
\* the observer has been handed a snapshot, and the last one it was handed
\* has completed = N, inProgress = 0 and succeeded + failed + skipped = N.
C39_FinalSnapshot ==
    (mainPc = "returned" /\ cfg.n >= 1 /\ workerCount >= 1) =>
        /\ progress # <<>>
        /\ LastSnapshot.completed = cfg.n
        /\ LastSnapshot.inProgress = 0
        /\ Settled(LastSnapshot) = cfg.n

\* A run of two tasks returned, one task succeeded and one did not
C39_Witness ==
    /\ mainPc = "returned"
    /\ cfg.n = 2
    /\ progress # <<>>
    /\ LastSnapshot.completed = 2
    /\ LastSnapshot.succeeded = 1
    /\ LastSnapshot.failed + LastSnapshot.skipped = 1

Queued == {c \in DOMAIN callers : callers[c].pc = "queued"}

Woken == {c \in DOMAIN callers : callers[c].pc = "woken"}

\* C35: under the concurrency strategy, when every admitted caller
\* eventually releases, every caller suspended in the wait queue is
\* eventually admitted; and no waiter is queued while there is neither an
\* admitted caller left to release nor a resolved waiter about to be admitted.
C35_QueuedEventuallyAdmitted ==
    /\ \A c \in 1..NumCallers :
           (c \in Queued) ~> (c \in DOMAIN callers /\ callers[c].pc = "admitted")
    /\ [](Queued # {} => Admitted \cup Woken # {})

\* Waiters are queued and no caller holds an admission: the only thing that
\* keeps the queue moving is the waiter that the last release resolved
C35_Witness ==
    /\ Queued # {}
    /\ Admitted = {}
    /\ Woken # {}

\* C36: with one tpm caller at a time, every cost within [0, limit] and
\* timers that fire no earlier than asked, the bucket holds between 0 and
\* limit tokens after every refill and every debit.
C36_TokensWithinBucket ==
    ModelId \in DOMAIN states =>
        /\ states[ModelId].tokens >= 0
        /\ states[ModelId].tokens <= rateLimit[ModelId].value * WindowSize

\* A caller waited for a waitTime with a fractional part, was admitted at
\* the first millisecond not before it, and the debit left less than one
\* millisecond of refill in the bucket
C36_Witness ==
    /\ ModelId \in DOMAIN states
    /\ states[ModelId].tokens < OddLimit
    /\ \E c \in DOMAIN callers :
          /\ callers[c].pc \in {"returning", "admitted", "done"}
          /\ callers[c].cost > 0
          /\ callers[c].admittedAt % TickMs # 0

\* The window as waitForRPM sees it when it runs now
WindowNow == Prune(states[ModelId].requestsInWindow)

\* C37: under the rpm strategy, with finitely many acquire calls and time
\* advancing, every caller that waits is eventually admitted; and a waiter
\* whose timer fires while the window is still full waits again, until the
\* oldest timestamp then in the window leaves it.
C37_RpmEventuallyAdmitted ==
    /\ \A c \in 1..NumRpmCallers :
           (c \in DOMAIN callers /\ callers[c].pc = "rpmWait")
               ~> (c \in DOMAIN callers /\ callers[c].pc = "admitted")
    /\ [][\A c \in DOMAIN callers :
              (RpmTimer(c) /\ Len(WindowNow) >= callers[c].limit) =>
                  /\ callers'[c].pc = "rpmWait"
                  /\ callers'[c].due = WindowNow[1] + WindowSize
                  /\ callers'[c].due > now]_vars

\* A waiter is in its second wait: its timer fired when the window had been
\* refilled by another waiter, and it now waits for that later timestamp
C37_Witness ==
    \E c \in DOMAIN callers :
        /\ callers[c].pc = "rpmWait"
        /\ callers[c].due >= 2 * WindowSize
        /\ ModelId \in DOMAIN states
        /\ states[ModelId].requestsInWindow # <<>>
        /\ callers[c].due = states[ModelId].requestsInWindow[1] + WindowSize
        /\ states[ModelId].requestsInWindow[1] >= WindowSize

\* The limiter state of id, if it has been created
StateOf(id) == {states[i] : i \in DOMAIN states \cap {id}}

\* Where caller d stands with the limiter; its place among the pending
\* then-callbacks (job) belongs to the job queue all promises share
Standing(d) == [callers[d] EXCEPT !.job = 0]

\* The step is an acquire of id, one of its continuations, or a release of id
OnResource(id) ==
    \E c \in DOMAIN callers :
        \/ Acquire(c, id, 1)
        \/ /\ callers[c].pc # "idle"
           /\ callers[c].id = id
           /\ Resume(c) \/ RpmTimer(c) \/ TpmTimer(c) \/ AcquireReturn(c) \/ Release(c)

\* C38: an acquire or a release on one resource id leaves the limiter state
\* and the wait queue of every other id as they were, and changes nothing
\* for a caller that waits for or holds another id: a release on one
\* resource never wakes a waiter of another.
C38_OtherResourcesUntouched ==
    [][\A id \in Resources : \A other \in Resources \ {id} :
           OnResource(id) =>
               /\ StateOf(other)' = StateOf(other)
               /\ QueueOf(other)' = QueueOf(other)
               /\ \A d \in DOMAIN callers :
                      (callers[d].pc # "idle" /\ callers[d].id = other) =>
                          Standing(d)' = Standing(d)]_vars

\* A release on one resource with an empty queue has just completed while a
\* waiter of the other resource is still queued behind an admitted caller
C38_Witness ==
    \E c, d, e \in DOMAIN callers :
        /\ callers[c].pc = "done" /\ callers[c].id = ModelId
        /\ callers[d].pc = "queued" /\ callers[d].id = OtherId
        /\ callers[e].pc = "admitted" /\ callers[e].id = OtherId
        /\ QueueOf(OtherId) = <<d>>

\* C40: the limiter state of a resource is created by its first use, with
\* tokens = 0 and lastRefill = the time of creation; hence the first tpm
\* acquire of a resource, when it costs c > 0, is not admitted at once but
\* suspended on a timer of c * 60000 / limit ms.
C40_FirstTpmAcquireWaits ==
    [][\A c \in DOMAIN callers : \A cost \in 0..MaxCost :
           (ModelId \notin DOMAIN states /\ Acquire(c, ModelId, cost)) =>
               /\ states'[ModelId].tokens = 0
               /\ states'[ModelId].lastRefill = now
               /\ cost > 0 =>
                      /\ callers'[c].pc = "tpmWait"
                      /\ (callers'[c].due - now) * Limit = cost * WindowSize]_vars

\* The first acquire of the resource asked for two tokens and waits for the
\* time the limit takes to supply them
C40_Witness ==
    \E c \in DOMAIN callers :
        /\ callers[c].pc = "tpmWait"
        /\ callers[c].cost = 2
        /\ \A d \in DOMAIN callers \ {c} : callers[d].pc = "idle"
        /\ states[ModelId].tokens = 0
        /\ states[ModelId].lastRefill = now
        /\ (callers[c].due - now) * Limit = 2 * WindowSize

====
